---------------------------- MODULE Spec2Model ----------------------------
(***************************************************************************)
(* A model of the two pieces of the inkra blender scripts that carry       *)
(* logic of their own:                                                     *)
(*   - the visualizer launcher  (scripts/master_visualizer_generator.py)   *)
(*   - the transcript analyzer  (scripts/analyze_techniques.py)            *)
(* Spec is the launcher, AnalyzerSpec the analyzer's main, ExtractSpec     *)
(* the analyzer's pure function extract_techniques over bounded texts.     *)
(***************************************************************************)
EXTENDS Integers, Sequences, FiniteSets, TLC

VARIABLES
    \* ---- launcher (master_visualizer_generator.py) ----
    argv,          \* sys.argv, argv[1] is the program name
    pc,            \* position of the launcher's control
    mode,          \* "cli" or "menu": who called the running action
    caller,        \* who called the run_visualizer in progress
    rv,            \* frame of the current / last run_visualizer call
    inflight,      \* number of host subprocesses started and not yet reaped
    results,       \* run_all_visualizers: results dict, in insertion order
    globals,       \* the module's globals VISUALIZERS and AUDIO_FILES
    idx,           \* run_all_visualizers: position in the registry
    attempts,      \* keys run_all_visualizers called run_visualizer with
    summary,       \* run_all_visualizers: the printed successful / total
    outputDir,     \* TRUE once the output directory was created
    batchScript,   \* lines of render_all_visualizers.sh, <<>> if not written
    cb,            \* frame of the last create_render_batch call
    dispatched,    \* the branches of main taken so far
    out,           \* messages printed by the action in progress
    rounds,        \* iterations of the interactive menu so far
    menuKey,       \* interactive menu: the visualizer key entered
    menuChoice,    \* interactive menu: the option entered last, stripped
    audioChoice,   \* interactive menu: the audio choice entered, stripped
    sh,            \* a run of the generated shell script
    \* ---- analyzer (analyze_techniques.py) ----
    files,         \* what glob returned: sequence of [name, text, readable]
    apc,           \* position of the analyzer's main
    aidx,          \* index of the next transcript file
    all_techniques,     \* defaultdict(int), in insertion order
    tutorial_summaries, \* list of summary records
    report,        \* the report built so far
    written,       \* TRUE once techniques_analysis.md was written
    aout,          \* what the analyzer printed at the end
    steps,         \* main's local steps: the last extract_steps result
    analyzing,     \* the files main printed an "Analyzing:" line for
    \* ---- extract_techniques on one text ----
    xtext,         \* the input text
    xres,          \* the returned list of (technique, count)
    xpc,
    \* ---- a visualizer script run by the host (scripts/*.py) ----
    sc,            \* the run of main: script, position, what was done
    \* ---- functions of the scripts, called on their own ----
    br,            \* create_branching_system: the recursion in progress
    vt,            \* clean_vtt_text: the loop over the lines
    anim           \* animate_tiktok_crystals: the loops over frames, crystals

lvars == <<argv, pc, mode, caller, rv, inflight, results, globals, idx, attempts,
           summary, outputDir, batchScript, cb, dispatched, out, rounds,
           menuKey, menuChoice, audioChoice, sh>>
avars == <<files, apc, aidx, all_techniques, tutorial_summaries, report,
           written, aout, steps, analyzing>>
xvars == <<xtext, xres, xpc>>
svars == <<sc>>
ovars == <<br, vt, anim>>
vars  == <<lvars, avars, xvars, svars, ovars>>

-----------------------------------------------------------------------------
(* Bounds of the model *)

\* iterations of the interactive menu that are explored
MaxRounds == 2

-----------------------------------------------------------------------------
(* Generic helpers *)

None == "None"

Chars(s) == [i \in 1..Len(s) |-> SubSeq(s, i, i)]

Range(s) == {s[i] : i \in 1..Len(s)}

\* results[key] = value on a dict kept in insertion order
DictSet(d, key, value) ==
    IF \E i \in 1..Len(d) : d[i][1] = key
    THEN [i \in 1..Len(d) |-> IF d[i][1] = key THEN <<key, value>> ELSE d[i]]
    ELSE Append(d, <<key, value>>)

RECURSIVE CountTrue(_)
CountTrue(s) ==
    IF s = <<>> THEN 0
    ELSE (IF Head(s)[2] THEN 1 ELSE 0) + CountTrue(Tail(s))

-----------------------------------------------------------------------------
(* master_visualizer_generator.py: configuration data *)

\* the two module-level objects as the module's body builds them
GlobalsAtImport ==
    [VISUALIZERS |-> <<
            [key |-> "geometry_nodes_waveform",
             name |-> "Advanced Geometry Nodes Waveform",
             description |-> "Complex waveform using procedural geometry nodes with particle systems",
             script |-> "geometry_nodes_waveform.py"],
            [key |-> "fluid_audio",
             name |-> "Fluid Simulation Audio Reactive",
             description |-> "Ocean-like fluid simulation that responds to audio frequencies",
             script |-> "fluid_audio_visualizer.py"],
            [key |-> "procedural_space",
             name |-> "Procedural Space Visualizer",
             description |-> "Cosmic environment with stars, nebulae, and audio-reactive planets",
             script |-> "procedural_space_visualizer.py"],
            [key |-> "organic_growth",
             name |-> "Organic Growth Visualizer",
             description |-> "Plant-like growth patterns with L-systems and procedural animation",
             script |-> "organic_growth_visualizer.py"],
            [key |-> "crystalline_resonance",
             name |-> "Crystalline Resonance Visualizer",
             description |-> "Fractal crystals that shatter and reform with audio resonance",
             script |-> "crystalline_resonance_visualizer.py"],
            [key |-> "quantum_interference",
             name |-> "Quantum Interference Visualizer",
             description |-> "Wave interference patterns with probability clouds and dimensional rifts",
             script |-> "quantum_interference_visualizer.py"] >>,
     AUDIO_FILES |-> <<
            "/Users/magnusfremont/Desktop/VibeWriter/audio_remaster/output/remastered_final.m4a",
            "/Users/magnusfremont/Desktop/VibeWriter/audio_remaster/output/remastered_adaptive.m4a",
            "/Users/magnusfremont/Desktop/VibeWriter/audio_remaster/output/remastered_balanced.m4a",
            "/Users/magnusfremont/Desktop/VibeWriter/audio_remaster/output/remastered_concise.m4a",
            "/Users/magnusfremont/Desktop/VibeWriter/audio_remaster/output/remastered_storytelling.m4a" >>]

\* the registry: VISUALIZERS, a dict kept as the sequence of its items, the
\* key of an item being the field key of the record
VISUALIZERS == globals.VISUALIZERS

\* the list of audio files
AUDIO_FILES == globals.AUDIO_FILES

\* the keys of the registry
Keys == {VISUALIZERS[i].key : i \in 1..Len(VISUALIZERS)}

\* VISUALIZERS[key]
Visualizer(key) ==
    VISUALIZERS[CHOOSE i \in 1..Len(VISUALIZERS) : VISUALIZERS[i].key = key]

\* `visualizer_key in VISUALIZERS`
KeyRegistered(key) == key \in Keys

\* get_script_path() / visualizer['script']
ScriptPath(v) == "scripts/" \o v.script

possible_paths == <<
    "/Applications/Blender.app/Contents/MacOS/Blender",
    "/usr/local/bin/blender",
    "/usr/bin/blender",
    "blender" >>

\* the candidates that name a filesystem location; "blender" is looked up in PATH
AbsoluteCandidates == {possible_paths[i] : i \in 1..3}

\* the loop of get_blender_executable from candidate i on; `existing` is the
\* set of paths for which os.path.exists holds
RECURSIVE ProbeFrom(_, _)
ProbeFrom(i, existing) ==
    IF i > Len(possible_paths) THEN None
    ELSE IF possible_paths[i] \in existing \/ possible_paths[i] = "blender"
         THEN possible_paths[i]
         ELSE ProbeFrom(i + 1, existing)

\* get_blender_executable if it returned the last candidate that exists
get_blender_executable_last(existing) ==
    LET found == {i \in 1..Len(possible_paths) : possible_paths[i] \in existing}
    IN IF found = {} THEN "blender"
       ELSE possible_paths[CHOOSE i \in found : \A j \in found : j <= i]

get_blender_executable(existing) == ProbeFrom(1, existing)

\* the command list run_visualizer builds
Cmd(blender_exe, script_path) ==
    <<blender_exe, "--background", "--python", script_path>>

\* the command if run_visualizer handed the audio file on to the script
ConstructCommandWithAudio(blender_exe, script_path, audio_file, output_dir) ==
    Cmd(blender_exe, script_path) \o <<"--", audio_file>>

\* `cmd = [...]` in run_visualizer, where audio_file and output_dir are in
\* scope
ConstructCommand(blender_exe, script_path, audio_file, output_dir) ==
    Cmd(blender_exe, script_path)

-----------------------------------------------------------------------------
(* Inputs of the launcher *)

\* first command-line arguments tried: the three commands, two registered
\* keys and two words that are neither
Commands == {"list", "all", "batch", "fluid_audio", "quantum_interference",
             "bogus", "ALL"}

AudioArgs == {"/tmp/custom.m4a"}

Argvs == {<<"master_visualizer_generator.py">>}
         \cup {<<"master_visualizer_generator.py", c>> : c \in Commands}
         \cup {<<"master_visualizer_generator.py", c, a>> :
                    c \in Commands, a \in AudioArgs}

\* what the user types at the menu prompts
MenuChoices == {"1", "2", "3", "4", "5", " 5", "9", ""}
KeyInputs == {"fluid_audio", " organic_growth ", "bogus", ""}
AudioInputs == {"", "1", "5 ", "0", "6", "abc", "12"}

\* how a started host process can end, seen from subprocess.run
Outcomes == {"exit0", "exit1", "timeout", "exception"}

-----------------------------------------------------------------------------
(* run_visualizer *)

\* Python truthiness of an optional string argument: `if not audio_file`
Falsy(x) == x = None \/ x = ""

\* no run_visualizer call so far in the action in progress
NoFrame ==
    [key |-> None, audio |-> None, stage |-> "none", script_exists |-> FALSE,
     existing |-> {}, exe |-> None, cmd |-> <<>>, mkdir |-> FALSE,
     started |-> FALSE, state |-> "none", result |-> FALSE,
     outcome |-> "none", msg |-> "none"]

\* Caught without the `except Exception` clause
CaughtTimeoutOnly(outcome) == outcome = "timeout"

\* the except clauses around subprocess.run: TimeoutExpired, then Exception
Caught(outcome) == outcome \in {"timeout", "exception"}

\* the value run_visualizer returns after subprocess.run ended with `outcome`
ReturnValue(outcome) ==
    CASE outcome = "exit0" -> TRUE         \* result.returncode == 0
      [] outcome = "exit1" -> FALSE        \* the else branch
      [] outcome = "timeout" -> FALSE      \* except subprocess.TimeoutExpired
      [] OTHER -> FALSE                    \* except Exception

\* the message run_visualizer prints after subprocess.run
ReturnMessage(outcome) ==
    CASE outcome = "exit0" -> "completed"
      [] outcome = "exit1" -> "failed"
      [] outcome = "timeout" -> "timed_out"
      [] OTHER -> "error_running"

\* AliveAfterRun if a timed-out child were left running
AliveAfterRunLeak(n, outcome) == IF outcome = "timeout" THEN n ELSE n - 1

\* host processes alive after a subprocess.run that had started one ends,
\* n being alive before: run() kills and reaps the child on a timeout and on
\* any other exception, and has waited for it otherwise
AliveAfterRun(n, outcome) == n - 1

\* Stage without the lookup of the key in the registry
StageNoKeyCheck(key, script_exists, blender_exe) ==
    IF ~script_exists THEN "script_missing"
    ELSE IF blender_exe = None THEN "no_exe"
    ELSE "ready"

\* how far run_visualizer gets before subprocess.run: the three early returns
Stage(key, script_exists, blender_exe) ==
    IF ~KeyRegistered(key) THEN "unknown_key"
    ELSE IF ~script_exists THEN "script_missing"
    ELSE IF blender_exe = None THEN "no_exe"
    ELSE "ready"

\* whether the call runs output_dir.mkdir(exist_ok=True)
MakesOutputDir(stage, output_dir) == stage = "ready" /\ Falsy(output_dir)

\* Continue if run_all_visualizers left its loop at the first failure
ContinueStopOnFailure(from, key, success) ==
    CASE from = "runall" ->
            /\ pc' = "runall"
            /\ results' = DictSet(results, key, success)
            /\ UNCHANGED globals
            /\ idx' = IF success THEN idx + 1 ELSE Len(VISUALIZERS) + 1
      [] from = "menu" ->
            pc' = "menu" /\ UNCHANGED <<results, globals, idx>>
      [] OTHER ->
            pc' = "exit" /\ UNCHANGED <<results, globals, idx>>

\* Continue if interactive_menu left its loop after a run that failed
ContinueLeavesMenuOnFailure(from, key, success) ==
    CASE from = "runall" ->
            /\ pc' = "runall"
            /\ results' = DictSet(results, key, success)
            /\ UNCHANGED globals
            /\ idx' = idx + 1
      [] from = "menu" ->
            /\ pc' = IF success THEN "menu" ELSE "exit"
            /\ UNCHANGED <<results, globals, idx>>
      [] OTHER ->
            pc' = "exit" /\ UNCHANGED <<results, globals, idx>>

\* Continue if run_all_visualizers also noted the result in the registry
\* entry: VISUALIZERS[viz_key]['success'] = success
ContinueNotesInRegistry(from, key, success) ==
    CASE from = "runall" ->
            /\ pc' = "runall"
            /\ results' = DictSet(results, key, success)
            /\ globals' = [globals EXCEPT !.VISUALIZERS =
                  [i \in 1..Len(@) |->
                      IF @[i].key = key
                      THEN [f \in DOMAIN @[i] \cup {"success"} |->
                               IF f = "success" THEN success ELSE @[i][f]]
                      ELSE @[i]]]
            /\ idx' = idx + 1
      [] from = "menu" ->
            pc' = "menu" /\ UNCHANGED <<results, globals, idx>>
      [] OTHER ->
            pc' = "exit" /\ UNCHANGED <<results, globals, idx>>

\* what the caller of run_visualizer does with the value returned
Continue(from, key, success) ==
    CASE from = "runall" ->
            /\ pc' = "runall"
            /\ results' = DictSet(results, key, success)
            /\ UNCHANGED globals
            /\ idx' = idx + 1
      [] from = "menu" ->
            pc' = "menu" /\ UNCHANGED <<results, globals, idx>>
      [] OTHER ->                          \* main, or a direct call
            pc' = "exit" /\ UNCHANGED <<results, globals, idx>>

\* run_visualizer up to the point where subprocess.run is called; the early
\* returns hand False back to the caller in the same step
RunVisualizerEnter(key, audio_file, output_dir, from) ==
    \E script_exists \in BOOLEAN, existing \in SUBSET AbsoluteCandidates :
        LET blender_exe == get_blender_executable(existing)
            stage == Stage(key, script_exists, blender_exe)
            mkdir == MakesOutputDir(stage, output_dir)
            frame == [NoFrame EXCEPT !.key = key, !.audio = audio_file,
                                     !.stage = stage, !.mkdir = mkdir]
        IN
        /\ UNCHANGED <<inflight, out>>
        /\ IF stage # "unknown_key" /\ key \notin Keys THEN
              \* VISUALIZERS[visualizer_key] raises KeyError
              /\ rv' = [frame EXCEPT !.state = "raised", !.mkdir = FALSE,
                                     !.msg = "KeyError"]
              /\ pc' = "crashed"
              /\ UNCHANGED <<outputDir, caller, results, globals, idx>>
           ELSE
              /\ outputDir' = (outputDir \/ mkdir)
              /\ CASE stage = "unknown_key" ->
                        /\ rv' = [frame EXCEPT !.state = "returned",
                                               !.result = FALSE,
                                               !.msg = "unknown_visualizer"]
                        /\ Continue(from, key, FALSE)
                        /\ UNCHANGED caller
                   [] stage = "script_missing" ->
                        /\ rv' = [frame EXCEPT !.state = "returned",
                                               !.result = FALSE,
                                               !.msg = "script_not_found"]
                        /\ Continue(from, key, FALSE)
                        /\ UNCHANGED caller
                   [] stage = "no_exe" ->
                        /\ rv' = [frame EXCEPT !.script_exists = TRUE,
                                               !.existing = existing,
                                               !.state = "returned",
                                               !.result = FALSE,
                                               !.msg = "blender_not_found"]
                        /\ Continue(from, key, FALSE)
                        /\ UNCHANGED caller
                   [] OTHER ->
                        /\ rv' = [frame EXCEPT
                                    !.script_exists = script_exists,
                                    !.existing = existing,
                                    !.exe = blender_exe,
                                    !.audio = IF Falsy(audio_file)
                                              THEN AUDIO_FILES[1]
                                              ELSE audio_file,
                                    !.cmd = ConstructCommand(blender_exe,
                                              ScriptPath(Visualizer(key)),
                                              IF Falsy(audio_file)
                                              THEN AUDIO_FILES[1]
                                              ELSE audio_file,
                                              output_dir),
                                    !.state = "running",
                                    !.msg = "running"]
                        /\ pc' = "rv_launch"
                        /\ caller' = from
                        /\ UNCHANGED <<results, globals, idx>>

\* run_visualizer returns or raises after subprocess.run ended with `outcome`
RunVisualizerLeave(started, outcome) ==
    IF outcome \in {"exit0", "exit1"} \/ Caught(outcome) THEN
        /\ rv' = [rv EXCEPT !.state = "returned", !.started = started,
                            !.stage = IF started THEN "launched"
                                      ELSE "launch_failed",
                            !.result = ReturnValue(outcome),
                            !.outcome = outcome,
                            !.msg = ReturnMessage(outcome)]
        /\ Continue(caller, rv.key, ReturnValue(outcome))
    ELSE
        /\ rv' = [rv EXCEPT !.state = "raised", !.started = started,
                            !.outcome = outcome]
        /\ pc' = "crashed"
        /\ UNCHANGED <<results, globals, idx>>

\* subprocess.run starts the host process: Popen succeeds and the call now
\* blocks in communicate(timeout=300), or Popen raises (executable not
\* found, not permitted) and no process exists
SubprocessStart ==
    /\ pc = "rv_launch"
    /\ \/ /\ inflight' = inflight + 1
          /\ rv' = [rv EXCEPT !.started = TRUE, !.stage = "launched"]
          /\ pc' = "rv_wait"
          /\ UNCHANGED <<results, globals, idx>>
       \/ /\ RunVisualizerLeave(FALSE, "exception")
          /\ UNCHANGED inflight
    /\ UNCHANGED <<argv, mode, caller, attempts, summary, outputDir,
                   batchScript, cb, dispatched, out, rounds, menuKey, menuChoice, audioChoice, sh>>
    /\ UNCHANGED <<avars, xvars, svars, ovars>>

\* the blocked subprocess.run ends: the process exited, or the timeout
\* expired, or communicate raised
SubprocessExit ==
    /\ pc = "rv_wait"
    /\ \E outcome \in Outcomes :
          /\ RunVisualizerLeave(TRUE, outcome)
          /\ inflight' = AliveAfterRun(inflight, outcome)
    /\ UNCHANGED <<argv, mode, caller, attempts, summary, outputDir,
                   batchScript, cb, dispatched, out, rounds, menuKey, menuChoice, audioChoice, sh>>
    /\ UNCHANGED <<avars, xvars, svars, ovars>>

-----------------------------------------------------------------------------
(* run_all_visualizers *)

NoSummary == [printed |-> FALSE, successful |-> 0, total |-> 0]

\* the head of run_all_visualizers: the banner and `results = {}`; `o` is
\* what the action in progress printed before
RunAllStart(m, o) ==
    /\ mode' = m
    /\ results' = <<>>
    /\ UNCHANGED globals
    /\ idx' = 1
    /\ attempts' = <<>>
    /\ summary' = NoSummary
    /\ out' = o \cup {"runall_banner"}
    /\ pc' = "runall"

\* one iteration of `for viz_key in VISUALIZERS` up to the subprocess call
RunAllIter ==
    /\ pc = "runall"
    /\ idx <= Len(VISUALIZERS)
    /\ attempts' = Append(attempts, VISUALIZERS[idx].key)
    /\ RunVisualizerEnter(VISUALIZERS[idx].key, None, None, "runall")
    /\ UNCHANGED <<argv, mode, summary, batchScript, cb, dispatched, rounds,
                   menuKey, menuChoice, audioChoice, sh>>
    /\ UNCHANGED <<avars, xvars, svars, ovars>>

\* the number run_all_visualizers prints as successful
Successful(res) == CountTrue(res)

\* the results summary after the loop, then the return to main or the menu
RunAllSummary ==
    /\ pc = "runall"
    /\ idx > Len(VISUALIZERS)
    /\ summary' = [printed |-> TRUE, successful |-> Successful(results),
                   total |-> Len(results)]
    /\ out' = out \cup {"results_summary"}
    /\ pc' = IF mode = "cli" THEN "exit" ELSE "menu"
    /\ UNCHANGED <<argv, mode, caller, rv, inflight, results, globals, idx, attempts,
                   outputDir, batchScript, cb, dispatched, rounds, menuKey, menuChoice, audioChoice, sh>>
    /\ UNCHANGED <<avars, xvars, svars, ovars>>

-----------------------------------------------------------------------------
(* create_render_batch and the shell script it writes *)

Line(op, arg) == [op |-> op, arg |-> arg]

\* Block if the else branch ended the script
BlockExitOnFailure(blender_exe, visualizer) ==
    << Line("echo", <<"Rendering", visualizer.name>>),
       Line("run", <<blender_exe, "--background", "--python",
                     ScriptPath(visualizer)>>),
       Line("if_ok", <<>>),
       Line("echo", <<"completed", visualizer.name>>),
       Line("else", <<>>),
       Line("echo", <<"failed", visualizer.name>>),
       Line("exit", <<"1">>),
       Line("fi", <<>>) >>

\* the seven lines written for one registry entry
Block(blender_exe, visualizer) ==
    << Line("echo", <<"Rendering", visualizer.name>>),
       Line("run", <<blender_exe, "--background", "--python",
                     ScriptPath(visualizer)>>),
       Line("if_ok", <<>>),
       Line("echo", <<"completed", visualizer.name>>),
       Line("else", <<>>),
       Line("echo", <<"failed", visualizer.name>>),
       Line("fi", <<>>) >>

RECURSIVE Blocks(_, _)
Blocks(blender_exe, i) ==
    IF i > Len(VISUALIZERS) THEN <<>>
    ELSE Block(blender_exe, VISUALIZERS[i]) \o Blocks(blender_exe, i + 1)

\* everything f.write puts into render_all_visualizers.sh
BatchLines(blender_exe) ==
    << Line("shebang", <<"/bin/bash">>),
       Line("comment", <<"Auto-generated batch render script">>),
       Line("comment", <<"Renders all audio visualizers">>),
       Line("echo", <<"Starting batch render">>) >>
    \o Blocks(blender_exe, 1)
    \o << Line("echo", <<"Batch render complete!">>) >>

NoBatch == [called |-> FALSE, existing |-> {}, exe |-> None, wrote |-> FALSE]

\* create_render_batch, whole: mkdir, probe, write, chmod, print; `o` is
\* what the action in progress printed before
CreateRenderBatch(o) ==
    \E existing \in SUBSET AbsoluteCandidates :
        LET blender_exe == get_blender_executable(existing) IN
        /\ outputDir' = TRUE
        /\ IF blender_exe = None THEN
              /\ cb' = [called |-> TRUE, existing |-> existing,
                        exe |-> None, wrote |-> FALSE]
              /\ out' = o \cup {"blender_not_found"}
              /\ UNCHANGED batchScript
           ELSE
              /\ cb' = [called |-> TRUE, existing |-> existing,
                        exe |-> blender_exe, wrote |-> TRUE]
              /\ batchScript' = BatchLines(blender_exe)
              /\ out' = o \cup {"created_batch"}

\* a run of the generated script by bash: sh.line is the next line, sh.status
\* is $?, sh.invoked the commands run so far, sh.rc the exit status of the
\* last of them, sh.failures how many of them ended with a non-zero status,
\* sh.echoed the echo line printed last
NoShell == [line |-> 0, status |-> 0, invoked |-> <<>>, rc |-> 0,
            failures |-> 0, echoed |-> "none"]

\* first line after `from` with the given op
NextOp(script, from, op) ==
    CHOOSE j \in (from + 1)..Len(script) :
        /\ script[j].op = op
        /\ \A k \in (from + 1)..(j - 1) : script[k].op # op

ShellStart ==
    /\ pc = "exit"
    /\ batchScript # <<>>
    /\ sh.line = 0
    /\ sh' = [NoShell EXCEPT !.line = 1]
    /\ UNCHANGED <<argv, pc, mode, caller, rv, inflight, results, globals, idx,
                   attempts, summary, outputDir, batchScript, cb, dispatched,
                   out, rounds, menuKey, menuChoice, audioChoice>>
    /\ UNCHANGED <<avars, xvars, svars, ovars>>

\* bash executes one line; a host invocation ends with status 0 or 1
ShellStep ==
    /\ sh.line \in 1..Len(batchScript)
    /\ LET l == batchScript[sh.line] IN
       CASE l.op = "echo" ->
              sh' = [sh EXCEPT !.line = @ + 1, !.status = 0,
                               !.echoed = l.arg[1]]
         [] l.op = "run" ->
              \E status \in {0, 1} :
                 sh' = [sh EXCEPT !.line = @ + 1, !.status = status,
                                  !.rc = status,
                                  !.failures = @ + status,
                                  !.invoked = Append(@, l.arg)]
         [] l.op = "if_ok" ->
              sh' = [sh EXCEPT !.line = IF sh.status = 0 THEN @ + 1
                                        ELSE NextOp(batchScript, @, "else") + 1]
         [] l.op = "else" ->
              sh' = [sh EXCEPT !.line = NextOp(batchScript, @, "fi") + 1]
         [] l.op = "exit" ->
              sh' = [sh EXCEPT !.line = Len(batchScript) + 1]
         [] OTHER ->
              sh' = [sh EXCEPT !.line = @ + 1]
    /\ UNCHANGED <<argv, pc, mode, caller, rv, inflight, results, globals, idx,
                   attempts, summary, outputDir, batchScript, cb, dispatched,
                   out, rounds, menuKey, menuChoice, audioChoice>>
    /\ UNCHANGED <<avars, xvars, svars, ovars>>

-----------------------------------------------------------------------------
(* str methods used on what the user types *)

Whitespace == {" ", "\t", "\n", "\r"}

\* str.strip()
Strip(s) ==
    LET c == Chars(s)
        keep == {i \in 1..Len(s) : c[i] \notin Whitespace}
    IN IF keep = {} THEN ""
       ELSE SubSeq(s, CHOOSE i \in keep : \A j \in keep : i <= j,
                      CHOOSE i \in keep : \A j \in keep : i >= j)

Digits == Chars("0123456789")

\* str.isdigit() on the ASCII inputs tried
IsDigit(s) == s # "" /\ \A c \in Range(Chars(s)) : c \in Range(Digits)

DigitValue(c) == (CHOOSE d \in 1..10 : Digits[d] = c) - 1

RECURSIVE IntOfChars(_, _)
IntOfChars(c, acc) ==
    IF c = <<>> THEN acc
    ELSE IntOfChars(Tail(c), 10 * acc + DigitValue(Head(c)))

\* int(s) for a string of digits
Int_(s) == IntOfChars(Chars(s), 0)

-----------------------------------------------------------------------------
(* list_visualizers, interactive_menu, main *)

\* SelectedAudio if the choice were taken as a zero-based index
SelectedAudioZeroBased(audio_choice) ==
    IF audio_choice # "" /\ IsDigit(audio_choice)
    THEN LET audio_idx == Int_(audio_choice) IN
         IF 0 <= audio_idx /\ audio_idx < Len(AUDIO_FILES)
         THEN AUDIO_FILES[audio_idx + 1]
         ELSE None
    ELSE None

\* the audio file option 2 of the menu passes to run_visualizer
SelectedAudio(audio_choice) ==
    IF audio_choice # "" /\ IsDigit(audio_choice)
    THEN LET audio_idx == Int_(audio_choice) - 1 IN
         IF 0 <= audio_idx /\ audio_idx < Len(AUDIO_FILES)
         THEN AUDIO_FILES[audio_idx + 1]
         ELSE None
    ELSE None

\* the locals of the action before are gone
FreshLocals ==
    /\ results' = <<>>
    /\ UNCHANGED globals
    /\ idx' = 0
    /\ attempts' = <<>>
    /\ summary' = NoSummary

\* the option of the menu a stripped input selects
MenuOption(choice) ==
    IF choice \in {"1", "2", "3", "4", "5"} THEN choice ELSE "invalid"

\* one pass of the while loop: the menu is printed, a choice is read, and
\* the chosen option runs to its end, or to the next input() of option 2,
\* or to the first subprocess of option 3
MenuPrompt ==
    /\ pc = "menu"
    /\ \E typed \in MenuChoices :
        LET option == MenuOption(Strip(typed)) IN
        /\ rounds < MaxRounds \/ option = "5"
        /\ rounds' = rounds + 1
        /\ menuChoice' = Strip(typed)
        /\ CASE option = "1" ->
                  /\ out' = {"menu", "list"}
                  /\ pc' = "menu"
                  /\ FreshLocals
                  /\ cb' = NoBatch
                  /\ UNCHANGED <<mode, outputDir, batchScript>>
             [] option = "2" ->
                  /\ out' = {"menu", "list"}
                  /\ pc' = "menu_key"
                  /\ FreshLocals
                  /\ cb' = NoBatch
                  /\ UNCHANGED <<mode, outputDir, batchScript>>
             [] option = "3" ->
                  /\ RunAllStart("menu", {"menu"})
                  /\ cb' = NoBatch
                  /\ UNCHANGED <<outputDir, batchScript>>
             [] option = "4" ->
                  /\ CreateRenderBatch({"menu"})
                  /\ pc' = "menu"
                  /\ FreshLocals
                  /\ UNCHANGED mode
             [] option = "5" ->
                  /\ out' = {"menu", "goodbye"}
                  /\ pc' = "exit"
                  /\ FreshLocals
                  /\ cb' = NoBatch
                  /\ UNCHANGED <<mode, outputDir, batchScript>>
             [] OTHER ->
                  /\ out' = {"menu", "invalid_choice"}
                  /\ pc' = "menu"
                  /\ FreshLocals
                  /\ cb' = NoBatch
                  /\ UNCHANGED <<mode, outputDir, batchScript>>
    /\ rv' = NoFrame
    /\ menuKey' = None
    /\ audioChoice' = None
    /\ UNCHANGED <<argv, caller, inflight, dispatched, sh>>
    /\ UNCHANGED <<avars, xvars, svars, ovars>>

\* option 2 after the list: the key is read and looked up
MenuKey ==
    /\ pc = "menu_key"
    /\ \E typed \in KeyInputs :
        LET viz_key == Strip(typed) IN
        IF KeyRegistered(viz_key)
        THEN /\ menuKey' = viz_key
             /\ out' = out \cup {"audio_list"}
             /\ pc' = "menu_audio"
        ELSE /\ menuKey' = viz_key
             /\ out' = out \cup {"unknown_visualizer"}
             /\ pc' = "menu"
    /\ UNCHANGED <<argv, mode, caller, rv, inflight, results, globals, idx, attempts,
                   summary, outputDir, batchScript, cb, dispatched, rounds,
                   menuChoice, audioChoice, sh>>
    /\ UNCHANGED <<avars, xvars, svars, ovars>>

\* option 2 for a registered key: the audio choice is read and
\* run_visualizer is called
MenuAudio ==
    /\ pc = "menu_audio"
    /\ \E typed \in AudioInputs :
        /\ audioChoice' = Strip(typed)
        /\ RunVisualizerEnter(menuKey, SelectedAudio(Strip(typed)), None, "menu")
    /\ UNCHANGED <<argv, mode, attempts, summary, batchScript, cb,
                   dispatched, rounds, menuKey, menuChoice, sh>>
    /\ UNCHANGED <<avars, xvars, svars, ovars>>

\* Branch if main tested len(sys.argv) > 2
BranchShifted(args) ==
    IF Len(args) > 2 THEN
        LET command == args[2] IN
        IF command = "list" THEN "list"
        ELSE IF command = "all" THEN "all"
        ELSE IF command = "batch" THEN "batch"
        ELSE IF KeyRegistered(command) THEN "run"
        ELSE "unknown"
    ELSE "menu"

\* the branch of main that sys.argv selects
Branch(args) ==
    IF Len(args) > 1 THEN
        LET command == args[2] IN
        IF command = "list" THEN "list"
        ELSE IF command = "all" THEN "all"
        ELSE IF command = "batch" THEN "batch"
        ELSE IF KeyRegistered(command) THEN "run"
        ELSE "unknown"
    ELSE "menu"

\* main up to the end of the selected action, or to its first subprocess,
\* or to the first prompt of the menu
Main ==
    /\ pc = "start"
    /\ LET branch == Branch(argv) IN
       /\ dispatched' = Append(dispatched, branch)
       /\ CASE branch = "list" ->
                 /\ out' = out \cup {"list"}
                 /\ pc' = "exit"
                 /\ UNCHANGED <<mode, caller, rv, inflight, results, globals, idx,
                                attempts, summary, outputDir, batchScript,
                                cb>>
            [] branch = "all" ->
                 /\ RunAllStart("cli", out)
                 /\ UNCHANGED <<caller, rv, inflight, outputDir,
                                batchScript, cb>>
            [] branch = "batch" ->
                 /\ CreateRenderBatch(out)
                 /\ pc' = "exit"
                 /\ UNCHANGED <<mode, caller, rv, inflight, results, globals, idx,
                                attempts, summary>>
            [] branch = "run" ->
                 /\ RunVisualizerEnter(argv[2],
                        IF Len(argv) > 2 THEN argv[3] ELSE None, None, "main")
                 /\ UNCHANGED <<mode, attempts, summary, batchScript, cb>>
            [] branch = "unknown" ->
                 /\ out' = out \cup {"unknown_command"}
                 /\ pc' = "exit"
                 /\ UNCHANGED <<mode, caller, rv, inflight, results, globals, idx,
                                attempts, summary, outputDir, batchScript,
                                cb>>
            [] OTHER ->
                 /\ mode' = "menu"
                 /\ pc' = "menu"
                 /\ UNCHANGED <<caller, rv, inflight, results, globals, idx,
                                attempts, summary, outputDir, batchScript,
                                cb, out>>
    /\ UNCHANGED <<argv, rounds, menuKey, menuChoice, audioChoice, sh>>
    /\ UNCHANGED <<avars, xvars, svars, ovars>>

-----------------------------------------------------------------------------
(* scripts/*.py: the main of a visualizer script, as the host runs it *)

\* no script is running
NoScript == [script |-> None]

\* a call main makes, with the step of the pipeline the called function is:
\* clear, geometry, materials, particles (particle systems and force
\* fields), camera, lights (lamps and world), animation (keyframes), audio,
\* render_params, check (main's own test of scene.camera), render
Call(fn, kind) == [fn |-> fn, kind |-> kind]

main_crystalline_resonance_visualizer == <<
    Call("clear_scene", "clear"),
    Call("create_fractal_crystal_system", "geometry"),
    Call("create_crystal_material", "materials"),
    Call("create_crystal_material", "materials"),
    Call("materials.append", "materials"),
    Call("create_energy_field", "geometry"),
    Call("create_resonance_particles", "particles"),
    Call("create_force_fields", "particles"),
    Call("setup_dramatic_lighting", "lights"),
    Call("setup_camera", "camera"),
    Call("animate_crystal_resonance", "animation"),
    Call("setup_render_settings", "render_params") >>

main_fluid_audio_visualizer == <<
    Call("clear_scene", "clear"),
    Call("create_fluid_domain", "geometry"),
    Call("create_audio_reactive_inflow", "geometry"),
    Call("create_obstacle_field", "geometry"),
    Call("create_particle_foam_system", "particles"),
    Call("create_fluid_material", "materials"),
    Call("materials.append", "materials"),
    Call("setup_lighting", "lights"),
    Call("setup_camera", "camera"),
    Call("animate_audio_reactivity", "animation"),
    Call("setup_render_settings", "render_params") >>

main_geometry_nodes_waveform == <<
    Call("clear_scene", "clear"),
    Call("setup_camera_and_lighting", "camera"),
    Call("create_waveform_geometry_nodes", "geometry"),
    Call("create_particle_audio_reactive", "particles"),
    Call("create_curve_waveform", "geometry"),
    Call("create_spectral_analyzer_cubes", "geometry"),
    Call("setup_sound_strips", "audio"),
    Call("animate_visualizer", "animation"),
    Call("setup_render_settings", "render_params") >>

main_organic_growth_visualizer == <<
    Call("clear_scene", "clear"),
    Call("create_growth_base_system", "geometry"),
    Call("create_branching_system", "geometry"),
    Call("create_leaf_system", "geometry"),
    Call("create_flower_system", "geometry"),
    Call("setup_natural_lighting", "lights"),
    Call("setup_camera", "camera"),
    Call("create_growth_animation", "animation"),
    Call("create_wind_animation", "animation"),
    Call("setup_render_settings", "render_params") >>

main_procedural_space_visualizer == <<
    Call("clear_scene", "clear"),
    Call("create_procedural_stars", "geometry"),
    Call("create_audio_reactive_nebula", "geometry"),
    Call("create_audio_reactive_planets", "geometry"),
    Call("create_wormhole_effect", "geometry"),
    Call("setup_space_camera", "camera"),
    Call("setup_space_world", "lights"),
    Call("animate_space_objects", "animation"),
    Call("setup_render_settings", "render_params") >>

main_quantum_interference_visualizer == <<
    Call("clear_scene", "clear"),
    Call("create_quantum_wave_field", "geometry"),
    Call("create_probability_cloud", "geometry"),
    Call("create_dimensional_rifts", "geometry"),
    Call("create_quantum_particles", "particles"),
    Call("create_wave_material", "materials"),
    Call("materials.append", "materials"),
    Call("setup_quantum_lighting", "lights"),
    Call("setup_camera", "camera"),
    Call("animate_quantum_system", "animation"),
    Call("setup_render_settings", "render_params") >>

\* main of tiktok_crystalline_fixed.py if it attached the audio strip before
\* it set up the camera and the lights
main_tiktok_crystalline_fixed_audio_early == <<
    Call("clear_scene", "clear"),
    Call("create_tiktok_scene", "geometry"),
    Call("create_crystal_materials", "materials"),
    Call("setup_audio", "audio"),
    Call("setup_camera", "camera"),
    Call("setup_lighting", "lights"),
    Call("animate_crystals", "animation"),
    Call("setup_render", "render_params"),
    Call("if not bpy.context.scene.camera", "check"),
    Call("bpy.ops.render.render", "render") >>

main_tiktok_crystalline_fixed == <<
    Call("clear_scene", "clear"),
    Call("create_tiktok_scene", "geometry"),
    Call("create_crystal_materials", "materials"),
    Call("setup_camera", "camera"),
    Call("setup_lighting", "lights"),
    Call("animate_crystals", "animation"),
    Call("setup_audio", "audio"),
    Call("setup_render", "render_params"),
    Call("if not bpy.context.scene.camera", "check"),
    Call("bpy.ops.render.render", "render") >>

main_tiktok_crystalline_visualizer == <<
    Call("clear_scene", "clear"),
    Call("setup_tiktok_render", "render_params"),
    Call("create_tiktok_crystals", "geometry"),
    Call("create_tiktok_background", "geometry"),
    Call("create_tiktok_crystal_material", "materials"),
    Call("materials.append", "materials"),
    Call("setup_tiktok_camera", "camera"),
    Call("setup_tiktok_lighting", "lights"),
    Call("setup_audio_in_blender", "audio"),
    Call("animate_tiktok_crystals", "animation") >>

main_tiktok_fluid_visualizer == <<
    Call("clear_scene", "clear"),
    Call("create_fluid_waves", "geometry"),
    Call("create_fluid_materials", "materials"),
    Call("create_particle_streams", "particles"),
    Call("setup_tiktok_camera", "camera"),
    Call("setup_fluid_lighting", "lights"),
    Call("animate_fluid_system", "animation"),
    Call("setup_audio", "audio"),
    Call("setup_render", "render_params"),
    Call("if not bpy.context.scene.camera", "check"),
    Call("bpy.ops.render.render", "render") >>

main_tiktok_quantum_visualizer == <<
    Call("clear_scene", "clear"),
    Call("setup_tiktok_render", "render_params"),
    Call("create_quantum_wave_plane", "geometry"),
    Call("create_quantum_particles", "particles"),
    Call("create_dimensional_rifts_tiktok", "geometry"),
    Call("create_quantum_material", "materials"),
    Call("materials.append", "materials"),
    Call("setup_tiktok_camera", "camera"),
    Call("setup_tiktok_lighting", "lights"),
    Call("setup_audio", "audio"),
    Call("animate_quantum_system", "animation"),
    Call("bpy.ops.render.render", "render") >>

main_tiktok_quick_demo == <<
    Call("clear_scene", "clear"),
    Call("create_quick_visualizer", "geometry"),
    Call("setup_quick_camera", "camera"),
    Call("setup_quick_lighting", "lights"),
    Call("animate_quick_demo", "animation"),
    Call("setup_quick_audio", "audio"),
    Call("setup_quick_render", "render_params"),
    Call("bpy.ops.render.render", "render") >>

\* render_tiktok_crystalline.py: the body runs tiktok_crystalline_visualizer.py
\* with exec, main included, and then render_tiktok_video
main_render_tiktok_crystalline ==
    main_tiktok_crystalline_visualizer \o <<
    Call("render.filepath", "render_params"),
    Call("bpy.ops.render.render", "render") >>

\* the visualizer scripts of scripts/, by file name without .py
ScriptMains == [
    render_tiktok_crystalline |-> main_render_tiktok_crystalline,
    crystalline_resonance_visualizer |-> main_crystalline_resonance_visualizer,
    fluid_audio_visualizer |-> main_fluid_audio_visualizer,
    geometry_nodes_waveform |-> main_geometry_nodes_waveform,
    organic_growth_visualizer |-> main_organic_growth_visualizer,
    procedural_space_visualizer |-> main_procedural_space_visualizer,
    quantum_interference_visualizer |-> main_quantum_interference_visualizer,
    tiktok_crystalline_fixed |-> main_tiktok_crystalline_fixed,
    tiktok_crystalline_visualizer |-> main_tiktok_crystalline_visualizer,
    tiktok_fluid_visualizer |-> main_tiktok_fluid_visualizer,
    tiktok_quantum_visualizer |-> main_tiktok_quantum_visualizer,
    tiktok_quick_demo |-> main_tiktok_quick_demo ]

ScriptNames == DOMAIN ScriptMains

\* the scripts whose audio function tests os.path.exists(AUDIO_FILE) first
\* and wraps sequences.new_sound in try/except
ChecksAudioFile(script) ==
    script \in {"tiktok_crystalline_fixed", "tiktok_crystalline_visualizer",
                "tiktok_fluid_visualizer", "tiktok_quantum_visualizer",
                "tiktok_quick_demo", "render_tiktok_crystalline"}

\* the scripts whose main wraps bpy.ops.render.render in try/except
GuardsRender(script) ==
    script \in {"tiktok_crystalline_fixed", "tiktok_fluid_visualizer",
                "tiktok_quick_demo", "render_tiktok_crystalline"}

\* the scripts whose camera function assigns bpy.context.scene.camera
SetsSceneCamera(script) ==
    script \in {"tiktok_crystalline_fixed", "tiktok_fluid_visualizer",
                "tiktok_quick_demo"}

\* what a host call that can fail does
HostOutcomes == {"ok", "raises"}

\* strips the sequence editor holds before a script runs, at most
MaxStrips == 3

\* n strips that were in the sequence editor before the script ran
ExistingStrips(n) ==
    [k \in 1..n |-> [name |-> "existing", channel |-> k + 1, frame_start |-> 1]]

\* the scripts whose audio function removes the strips of a copy,
\* `for strip in list(seq_editor.sequences)`; the others iterate over the
\* collection they remove from
CopiesStripsFirst(script) ==
    script \in {"tiktok_crystalline_fixed", "tiktok_fluid_visualizer",
                "tiktok_quick_demo"}

\* the strips an iteration leaves that steps to the next index after each
\* removal: the second, the fourth, ...
EverySecond(seqs) == [k \in 1..(Len(seqs) \div 2) |-> seqs[2 * k]]

\* "Clear existing strips": what the removal loop can leave.  Removing from
\* the collection under iteration is not defined by the host: the iterator
\* may reach every strip, may skip the strip after each removed one, or may
\* follow a freed strip and bring the host down
ClearOutcomes(script, seqs) ==
    IF CopiesStripsFirst(script) \/ seqs = <<>>
    THEN {[crashed |-> FALSE, left |-> <<>>]}
    ELSE {[crashed |-> FALSE, left |-> <<>>],
          [crashed |-> FALSE, left |-> EverySecond(seqs)],
          [crashed |-> TRUE, left |-> Tail(seqs)]}

\* the name the script gives its sound strip
SoundStripName(script) ==
    CASE script = "geometry_nodes_waveform" -> "AudioStrip"
      [] script = "tiktok_fluid_visualizer" -> "FluidAudio"
      [] script = "tiktok_quantum_visualizer" -> "TikTokQuantumAudio"
      [] script = "tiktok_quick_demo" -> "DemoAudio"
      [] OTHER -> "TikTokAudio"

\* sequences.new_sound(name=..., filepath=..., channel=1, frame_start=1)
NewSound(script) ==
    [name |-> SoundStripName(script), channel |-> 1, frame_start |-> 1]

\* min(a, b)
Min(a, b) == IF a < b THEN a ELSE b

\* max(2, 8 - generation * 2)
branch_count(generation) ==
    IF 8 - generation * 2 > 2 THEN 8 - generation * 2 ELSE 2

\* the test of create_branching_system if it were `generation > max_generations`
PastMaxGeneration(generation, max_generations) == generation > max_generations

\* `if generation >= max_generations: return branches`
AtMaxGeneration(generation, max_generations) == generation >= max_generations

\* len(create_branching_system(stem, generation, max_generations)): each
\* branch of a call is followed by the branches of its recursive call
RECURSIVE BranchTotal(_, _)
BranchTotal(generation, max_generations) ==
    IF AtMaxGeneration(generation, max_generations) THEN 0
    ELSE branch_count(generation)
            * (1 + BranchTotal(generation + 1, max_generations))

\* range(start, stop, step) if it included stop
PyRangeInclusive(start, stop, step) ==
    {f \in start..stop : (f - start) % step = 0}

\* range(start, stop, step) of Python, for step > 0
PyRange(start, stop, step) ==
    {f \in start..(stop - 1) : (f - start) % step = 0}

\* the frames create_growth_animation keys: the stem, the branches
\* (staggered by 5 frames, keyed in the first 20 of their 40 frames), the
\* leaves (frame 1 and, when it is before frame_count, the frame they
\* appear at) and the flower parts (the frame they bloom at and, when it is
\* before frame_count, 20 frames later)
GrowthKeyframes(branches, leaves, flowers, frame_count) ==
    PyRange(1, Min(50, frame_count), 1)
    \cup UNION {{f \in PyRange(20 + i * 5, Min(20 + i * 5 + 40, frame_count), 1) :
                    f < 20 + i * 5 + 20} : i \in 0..(branches - 1)}
    \cup (IF leaves > 0 THEN {1} ELSE {})
    \cup {60 + i * 2 : i \in {k \in 0..(leaves - 1) : 60 + k * 2 < frame_count}}
    \cup {100 + i * 3 : i \in 0..(flowers - 1)}
    \cup {100 + i * 3 + 20 :
            i \in {k \in 0..(flowers - 1) : 100 + k * 3 + 20 < frame_count}}

\* the frames of the keyframe_insert calls of function fn of a script
Keyframes(script, fn) ==
    CASE script = "crystalline_resonance_visualizer" /\ fn = "setup_camera"
            -> {1, 300}
      [] script = "crystalline_resonance_visualizer"
            /\ fn = "animate_crystal_resonance" -> PyRange(1, 300 + 1, 5)
      [] script = "fluid_audio_visualizer" /\ fn = "animate_audio_reactivity"
            -> PyRange(1, 300 + 1, 5)
      [] script = "geometry_nodes_waveform" /\ fn = "animate_visualizer"
            -> PyRange(1, 250 + 1, 10)
      [] script = "organic_growth_visualizer" /\ fn = "create_growth_animation"
            -> GrowthKeyframes(BranchTotal(0, 4), Min(10, BranchTotal(0, 4)),
                               4 + 5 + 6 + 8 + 4, 300)
      [] script = "organic_growth_visualizer" /\ fn = "create_wind_animation"
            -> PyRange(1, 300 + 1, 5)
      [] script = "procedural_space_visualizer" /\ fn = "animate_space_objects"
            -> PyRange(1, 300 + 1, 10)
      [] script = "quantum_interference_visualizer" /\ fn = "setup_camera"
            -> PyRange(1, 301, 10)
      [] script = "quantum_interference_visualizer"
            /\ fn = "animate_quantum_system" -> PyRange(1, 300 + 1, 5)
      [] script = "tiktok_crystalline_fixed" /\ fn = "animate_crystals"
            -> PyRange(1, 360 + 1, 10)
      [] script \in {"tiktok_crystalline_visualizer", "render_tiktok_crystalline"}
            /\ fn = "setup_tiktok_camera" -> PyRange(1, 361, 10)
      [] script \in {"tiktok_crystalline_visualizer", "render_tiktok_crystalline"}
            /\ fn = "animate_tiktok_crystals" -> PyRange(1, 361, 5)
      [] script = "tiktok_fluid_visualizer" /\ fn = "animate_fluid_system"
            -> PyRange(1, 361, 8)
      [] script = "tiktok_quantum_visualizer" /\ fn = "setup_tiktok_camera"
            -> PyRange(1, 361, 15)
      [] script = "tiktok_quantum_visualizer" /\ fn = "animate_quantum_system"
            -> PyRange(1, 361, 10)
      [] script = "tiktok_quick_demo" /\ fn = "animate_quick_demo"
            -> PyRange(1, 121, 5)
      [] OTHER -> {}

\* scene.frame_start and scene.frame_end as the script's render setup
\* assigns them
FrameRange(script) ==
    CASE script = "geometry_nodes_waveform" -> <<1, 250>>
      [] script = "tiktok_quick_demo" -> <<1, 120>>
      [] script \in {"tiktok_crystalline_fixed", "tiktok_crystalline_visualizer",
                     "tiktok_fluid_visualizer", "tiktok_quantum_visualizer",
                     "render_tiktok_crystalline"} -> <<1, 360>>
      [] OTHER -> <<1, 300>>

\* the run of script's main on a machine where the audio file exists or
\* not and the sequence editor holds the strips `prior`
ScriptFrame(script, audio_exists, prior) ==
    [script |-> script,
     audio_exists |-> audio_exists,
     sequences |-> prior,     \* the strips of the sequence editor
     i |-> 1,                 \* the next call of main
     trace |-> <<>>,          \* the calls made so far
     strips |-> 0,            \* sound strips added to the sequence editor
     log |-> <<>>,            \* what was printed about audio and render
     camera |-> FALSE,        \* bpy.context.scene.camera is set
     keyframes |-> {},        \* the frames keyframes were inserted at
     frame_range |-> <<>>,    \* frame_start, frame_end once the script set them
     status |-> "running",    \* running, returned, raised, or crashed
     raised_in |-> None]      \* the step whose exception left main

\* the call main is about to make
NextCall == ScriptMains[sc.script][sc.i]

ScriptRunning ==
    /\ sc.script # None
    /\ sc.status = "running"
    /\ sc.i <= Len(ScriptMains[sc.script])

\* sc after the call was made and returned
Advanced(frame) ==
    [frame EXCEPT !.i = @ + 1, !.trace = Append(@, NextCall)]

\* sc after the call raised an exception that nothing in main catches
Raised(frame) ==
    [frame EXCEPT !.trace = Append(@, NextCall), !.status = "raised",
                  !.raised_in = NextCall.kind]

\* sc after the host process died in the call
Crashed(frame) ==
    [frame EXCEPT !.trace = Append(@, NextCall), !.status = "crashed"]

\* a call that builds the scene: the host does what it is told
BuildStep ==
    /\ ScriptRunning
    /\ NextCall.kind \notin {"audio", "check", "render"}
    /\ sc' = [Advanced(sc) EXCEPT
                !.camera = @ \/ (NextCall.kind = "camera"
                                 /\ SetsSceneCamera(sc.script)),
                !.keyframes = @ \cup Keyframes(sc.script, NextCall.fn),
                !.frame_range = IF NextCall.kind = "render_params"
                                   /\ NextCall.fn # "render.filepath"
                                THEN FrameRange(sc.script) ELSE @]
    /\ UNCHANGED <<lvars, avars, xvars, ovars>>

\* setup_audio and its namesakes.  Where the file is tested and missing the
\* function prints and returns; otherwise it removes the strips there are
\* and calls sequences.new_sound, which adds a strip or raises; what it
\* does for a file that does not exist is the host's choice
AudioStep ==
    /\ ScriptRunning
    /\ NextCall.kind = "audio"
    /\ IF ChecksAudioFile(sc.script) /\ ~sc.audio_exists THEN
          sc' = [Advanced(sc) EXCEPT !.log = Append(@, "audio_not_found")]
       ELSE
          \E cleared \in ClearOutcomes(sc.script, sc.sequences),
             host \in HostOutcomes :
             sc' = IF cleared.crashed
                   THEN [Crashed(sc) EXCEPT !.sequences = cleared.left]
                   ELSE IF host = "ok"
                   THEN [Advanced(sc) EXCEPT
                           !.sequences = Append(cleared.left,
                                                NewSound(sc.script)),
                           !.strips = @ + 1,
                           !.log = IF ChecksAudioFile(sc.script)
                                   THEN Append(@, "audio_loaded") ELSE @]
                   ELSE IF ChecksAudioFile(sc.script)
                   THEN [Advanced(sc) EXCEPT
                           !.sequences = cleared.left,
                           !.log = Append(@, "audio_error")]
                   ELSE [Raised(sc) EXCEPT !.sequences = cleared.left]
    /\ UNCHANGED <<lvars, avars, xvars, ovars>>

\* main if it went on to the render without looking at the camera
SceneCameraUnverified(frame, held) == TRUE

\* whether bpy.context.scene.camera is set when main looks at it: the
\* script has set it and the host still holds the object (scene.camera is
\* a pointer of the host, which drops it when the object leaves the data)
SceneCamera(frame, held) == frame.camera /\ held

\* `if not bpy.context.scene.camera: print(...); return`
CameraCheck ==
    /\ ScriptRunning
    /\ NextCall.kind = "check"
    /\ \E held \in BOOLEAN :
          sc' = IF SceneCamera(sc, held)
                THEN [Advanced(sc) EXCEPT !.camera = @ /\ held]
                ELSE [Advanced(sc) EXCEPT !.camera = @ /\ held,
                                          !.log = Append(@, "no_camera"),
                                          !.status = "returned"]
    /\ UNCHANGED <<lvars, avars, xvars, ovars>>

\* bpy.ops.render.render(animation=True), inside try/except or not
RenderStep ==
    /\ ScriptRunning
    /\ NextCall.kind = "render"
    /\ \E host \in HostOutcomes :
          sc' = IF host = "ok"
                THEN [Advanced(sc) EXCEPT !.log = Append(@, "render_complete")]
                ELSE IF GuardsRender(sc.script)
                THEN [Advanced(sc) EXCEPT !.log = Append(@, "render_failed")]
                ELSE Raised(sc)
    /\ UNCHANGED <<lvars, avars, xvars, ovars>>

\* main returns after its last statement
ScriptReturn ==
    /\ sc.script # None
    /\ sc.status = "running"
    /\ sc.i > Len(ScriptMains[sc.script])
    /\ sc' = [sc EXCEPT !.status = "returned"]
    /\ UNCHANGED <<lvars, avars, xvars, ovars>>

-----------------------------------------------------------------------------
(* The launcher as a state machine *)

AnalyzerIdle ==
    /\ files = <<>>
    /\ apc = "idle"
    /\ aidx = 0
    /\ all_techniques = <<>>
    /\ tutorial_summaries = <<>>
    /\ report = [techniques |-> <<>>, summaries |-> <<>>]
    /\ written = FALSE
    /\ aout = <<>>
    /\ steps = <<>>
    /\ analyzing = <<>>

ScriptIdle == sc = NoScript

\* no function of a script is being called on its own
NoCall == [status |-> "idle"]

OthersIdle ==
    /\ br = NoCall
    /\ vt = NoCall
    /\ anim = NoCall

ExtractIdle ==
    /\ xtext = ""
    /\ xres = <<>>
    /\ xpc = "idle"

LauncherIdle ==
    /\ globals = GlobalsAtImport
    /\ argv = <<>>
    /\ pc = "idle"
    /\ mode = "cli"
    /\ caller = "main"
    /\ rv = NoFrame
    /\ inflight = 0
    /\ results = <<>>
    /\ idx = 0
    /\ attempts = <<>>
    /\ summary = NoSummary
    /\ outputDir = FALSE
    /\ batchScript = <<>>
    /\ cb = NoBatch
    /\ dispatched = <<>>
    /\ out = {}
    /\ rounds = 0
    /\ menuKey = None
    /\ menuChoice = None
    /\ audioChoice = None
    /\ sh = NoShell

\* the process starts with some command line; the output directory may be
\* there from an earlier run
Init ==
    /\ globals = GlobalsAtImport
    /\ argv \in Argvs
    /\ pc = "start"
    /\ mode = "cli"
    /\ caller = "main"
    /\ rv = NoFrame
    /\ inflight = 0
    /\ results = <<>>
    /\ idx = 0
    /\ attempts = <<>>
    /\ summary = NoSummary
    /\ outputDir = FALSE
    /\ batchScript = <<>>
    /\ cb = NoBatch
    /\ dispatched = <<>>
    /\ out = {}
    /\ rounds = 0
    /\ menuKey = None
    /\ menuChoice = None
    /\ audioChoice = None
    /\ sh = NoShell
    /\ AnalyzerIdle
    /\ ExtractIdle
    /\ ScriptIdle
    /\ OthersIdle

Next ==
    \/ Main
    \/ MenuPrompt
    \/ MenuKey
    \/ MenuAudio
    \/ RunAllIter
    \/ RunAllSummary
    \/ SubprocessStart
    \/ SubprocessExit
    \/ ShellStart
    \/ ShellStep

Spec == Init /\ [][Next]_vars

-----------------------------------------------------------------------------
(* run_visualizer called directly, with any arguments *)

KeyArgs == {"fluid_audio", "crystalline_resonance", "bogus", "", "Fluid_Audio"}
AudioFileArgs == {None, "", "/tmp/custom.m4a"}
OutputDirArgs == {None, "/tmp/renders"}

CallInit ==
    /\ LauncherIdle
    /\ AnalyzerIdle
    /\ ExtractIdle
    /\ ScriptIdle
    /\ OthersIdle

CallRunVisualizer ==
    /\ pc = "idle"
    /\ \E key \in KeyArgs, audio_file \in AudioFileArgs,
          output_dir \in OutputDirArgs :
          RunVisualizerEnter(key, audio_file, output_dir, "call")
    /\ UNCHANGED <<argv, mode, attempts, summary, batchScript, cb,
                   dispatched, rounds, menuKey, menuChoice, audioChoice, sh>>
    /\ UNCHANGED <<avars, xvars, svars, ovars>>

CallNext ==
    \/ CallRunVisualizer
    \/ SubprocessStart
    \/ SubprocessExit

RunSpec == CallInit /\ [][CallNext]_vars

-----------------------------------------------------------------------------
(* analyze_techniques.py: the regular expressions, as re matches them *)

UpperCase == Chars("ABCDEFGHIJKLMNOPQRSTUVWXYZ")
LowerCase == Chars("abcdefghijklmnopqrstuvwxyz")

ToLower == [ch \in Range(UpperCase) |->
               LowerCase[CHOOSE i \in 1..Len(UpperCase) : UpperCase[i] = ch]]

\* the lower-case form of a character, which re.IGNORECASE compares
Lower(ch) == IF ch \in DOMAIN ToLower THEN ToLower[ch] ELSE ch

\* One element of a pattern: a character class with a quantifier; g marks
\* the capture group.  Classes: "lit" a literal character (also [s]),
\* "space" \s, "digit" \d, "notdot" [^\.], "commaspace" [,\s],
\* "colondash" [:\-].  Quantifiers: "1", "?", "*", "+".
El(cls, c, q, g) == [cls |-> cls, c |-> c, q |-> q, g |-> g]

\* a literal word
Lit(word) == [i \in 1..Len(word) |-> El("lit", SubSeq(word, i, i), "1", FALSE)]

Opt(c) == <<El("lit", c, "?", FALSE)>>           \* [s]?
Spaces == <<El("space", "", "*", FALSE)>>        \* \s*
Sep == <<El("commaspace", "", "+", FALSE)>>      \* [,\s]+
Rest == <<El("notdot", "", "+", TRUE)>>          \* ([^\.]+)

\* InClass without re.IGNORECASE
InClassExact(el, ch) ==
    CASE el.cls = "lit" -> ch = el.c
      [] el.cls = "space" -> ch \in Whitespace
      [] el.cls = "digit" -> ch \in Range(Digits)
      [] el.cls = "notdot" -> ch # "."
      [] el.cls = "commaspace" -> ch = "," \/ ch \in Whitespace
      [] el.cls = "colondash" -> ch \in {":", "-"}

\* whether character ch is in the class of el under re.IGNORECASE
InClass(el, ch) ==
    CASE el.cls = "lit" -> Lower(ch) = Lower(el.c)
      [] el.cls = "space" -> ch \in Whitespace
      [] el.cls = "digit" -> ch \in Range(Digits)
      [] el.cls = "notdot" -> ch # "."
      [] el.cls = "commaspace" -> ch = "," \/ ch \in Whitespace
      [] el.cls = "colondash" -> ch \in {":", "-"}

\* how many characters of t from position p on are in the class of el
MaxRun(el, t, p) ==
    IF p > Len(t) \/ ~InClass(el, t[p]) THEN 0
    ELSE IF el.q \in {"1", "?"} THEN 1
    ELSE LET stops == {j \in p..Len(t) : ~InClass(el, t[j])} \cup {Len(t) + 1}
         IN (CHOOSE j \in stops : \A i \in stops : j <= i) - p

NoMatch == <<0, 0, 0>>

\* The backtracking matcher: elements k.. of e against t from position p.
\* The result is <<end, group start, group end>>, end being the position
\* after the match, or NoMatch.  A quantified element first takes as many
\* characters as it can and gives them back one at a time (greedy).
RECURSIVE MatchFrom(_, _, _, _), Backtrack(_, _, _, _, _, _)
MatchFrom(e, k, t, p) ==
    IF k > Len(e) THEN <<p, 0, 0>>
    ELSE LET run == MaxRun(e[k], t, p)
             lo == IF e[k].q \in {"1", "+"} THEN 1 ELSE 0
             hi == run
         IN Backtrack(e, k, t, p, hi, lo)

Backtrack(e, k, t, p, n, lo) ==
    IF n < lo THEN NoMatch
    ELSE LET r == MatchFrom(e, k + 1, t, p + n) IN
         IF r # NoMatch
         THEN IF e[k].g THEN <<r[1], p, p + n>> ELSE r
         ELSE Backtrack(e, k, t, p, n - 1, lo)

\* a regular expression is a sequence of alternatives (a|b|c), tried in order
RECURSIVE MatchAlt(_, _, _, _)
MatchAlt(re, i, t, p) ==
    IF i > Len(re) THEN NoMatch
    ELSE LET r == MatchFrom(re[i], 1, t, p) IN
         IF r # NoMatch THEN r ELSE MatchAlt(re, i + 1, t, p)

\* The scan of re.findall from position p: the leftmost match, then on from
\* its end.  Each match is [s, e, gs, ge]: the span and the group's span.
\* (starts: the positions of t where re matches)
RECURSIVE FindAllFrom(_, _, _, _)
FindAllFrom(re, t, starts, p) ==
    LET left == {q \in starts : q >= p} IN
    IF left = {} THEN <<>>
    ELSE LET q == CHOOSE i \in left : \A j \in left : i <= j
             r == MatchAlt(re, 1, t, q)
         IN <<[s |-> q, e |-> r[1], gs |-> r[2], ge |-> r[3]]>>
            \o FindAllFrom(re, t, left, IF r[1] > q THEN r[1] ELSE q + 1)

\* re.findall(pattern, text, re.IGNORECASE), as spans
FindAll(re, text) ==
    LET t == Chars(text) IN
    FindAllFrom(re, t, {q \in 1..Len(t) : MatchAlt(re, 1, t, q) # NoMatch}, 1)

-----------------------------------------------------------------------------
(* analyze_techniques.py: extract_techniques, extract_steps *)

\* the patterns dict of extract_techniques, in its order
patterns == <<
    [technique |-> "geometry_nodes",       \* geometry\s*node[s]?
     re |-> <<Lit("geometry") \o Spaces \o Lit("node") \o Opt("s")>>],
    [technique |-> "sound_input",          \* sound\s*input
     re |-> <<Lit("sound") \o Spaces \o Lit("input")>>],
    [technique |-> "bake_sound",           \* bake\s*sound
     re |-> <<Lit("bake") \o Spaces \o Lit("sound")>>],
    [technique |-> "spectral_analysis",    \* spectral|frequency|spectrum
     re |-> <<Lit("spectral"), Lit("frequency"), Lit("spectrum")>>],
    [technique |-> "audio_animation",      \* audio\s*animation
     re |-> <<Lit("audio") \o Spaces \o Lit("animation")>>],
    [technique |-> "drivers",              \* driver[s]?
     re |-> <<Lit("driver") \o Opt("s")>>],
    [technique |-> "modifiers",            \* modifier[s]?
     re |-> <<Lit("modifier") \o Opt("s")>>],
    [technique |-> "particle_systems",     \* particle[s]?\s*system[s]?
     re |-> <<Lit("particle") \o Opt("s") \o Spaces \o Lit("system")
              \o Opt("s")>>],
    [technique |-> "material_nodes",       \* material\s*node[s]?
     re |-> <<Lit("material") \o Spaces \o Lit("node") \o Opt("s")>>],
    [technique |-> "vertex_groups",        \* vertex\s*group[s]?
     re |-> <<Lit("vertex") \o Spaces \o Lit("group") \o Opt("s")>>],
    [technique |-> "curve_objects",        \* curve[s]?\s*object[s]?
     re |-> <<Lit("curve") \o Opt("s") \o Spaces \o Lit("object")
              \o Opt("s")>>],
    [technique |-> "displacement",         \* displacement
     re |-> <<Lit("displacement")>>],
    [technique |-> "scale_animation",      \* scale\s*animation
     re |-> <<Lit("scale") \o Spaces \o Lit("animation")>>],
    [technique |-> "emission_shader",      \* emission\s*shader
     re |-> <<Lit("emission") \o Spaces \o Lit("shader")>>],
    [technique |-> "wave_texture",         \* wave\s*texture
     re |-> <<Lit("wave") \o Spaces \o Lit("texture")>>],
    [technique |-> "noise_texture",        \* noise\s*texture
     re |-> <<Lit("noise") \o Spaces \o Lit("texture")>>],
    [technique |-> "mix_shader",           \* mix\s*shader
     re |-> <<Lit("mix") \o Spaces \o Lit("shader")>>],
    [technique |-> "add_shader",           \* add\s*shader
     re |-> <<Lit("add") \o Spaces \o Lit("shader")>>] >>

\* the number extract_techniques reports for a list of matches
MatchCount(matches) == Len(matches)

\* TechniquesFrom without the test `if matches`
RECURSIVE TechniquesFromUnfiltered(_, _)
TechniquesFromUnfiltered(text, i) ==
    IF i > Len(patterns) THEN <<>>
    ELSE << <<patterns[i].technique,
              MatchCount(FindAll(patterns[i].re, text))>> >>
         \o TechniquesFromUnfiltered(text, i + 1)

\* the loop of extract_techniques from pattern i on
RECURSIVE TechniquesFrom(_, _)
TechniquesFrom(text, i) ==
    IF i > Len(patterns) THEN <<>>
    ELSE LET matches == FindAll(patterns[i].re, text) IN
         (IF matches # <<>>
          THEN << <<patterns[i].technique, MatchCount(matches)>> >>
          ELSE <<>>)
         \o TechniquesFrom(text, i + 1)

extract_techniques(text) == TechniquesFrom(text, 1)

\* the step_patterns list of extract_steps, in its order
step_patterns == <<
    \* step\s*\d+[:\-]?\s*([^\.]+)
    <<Lit("step") \o Spaces \o <<El("digit", "", "+", FALSE)>>
      \o <<El("colondash", "", "?", FALSE)>> \o Spaces \o Rest>>,
    <<Lit("first") \o Sep \o Rest>>,       \* first[,\s]+([^\.]+)
    <<Lit("next") \o Sep \o Rest>>,        \* next[,\s]+([^\.]+)
    <<Lit("then") \o Sep \o Rest>>,        \* then[,\s]+([^\.]+)
    <<Lit("finally") \o Sep \o Rest>>,     \* finally[,\s]+([^\.]+)
    <<Lit("now") \o Sep \o Rest>>,         \* now[,\s]+([^\.]+)
    \* after\s*that[,\s]+([^\.]+)
    <<Lit("after") \o Spaces \o Lit("that") \o Sep \o Rest>> >>

\* what findall returns for a pattern without a group: the matches' texts
WholeMatches(text, matches) ==
    [i \in 1..Len(matches) |-> SubSeq(text, matches[i].s, matches[i].e - 1)]

\* what findall returns for a pattern with one group: the groups' texts
Groups(text, matches) ==
    [i \in 1..Len(matches) |-> SubSeq(text, matches[i].gs, matches[i].ge - 1)]

\* the loop of extract_steps from pattern i on
RECURSIVE StepsFrom(_, _)
StepsFrom(text, i) ==
    IF i > Len(step_patterns) THEN <<>>
    ELSE Groups(text, FindAll(step_patterns[i], text))
         \o StepsFrom(text, i + 1)

\* seq[:n]
Take(seq, n) == SubSeq(seq, 1, IF Len(seq) < n THEN Len(seq) ELSE n)

RawStepLimit == 10

\* extract_steps returning every match
extract_steps_unlimited(text) == StepsFrom(text, 1)

extract_steps(text) == Take(StepsFrom(text, 1), RawStepLimit)

-----------------------------------------------------------------------------
(* analyze_techniques.py: main *)

\* len(text.split()): the number of maximal runs of non-whitespace
WordCount(text) ==
    LET t == Chars(text) IN
    Cardinality({i \in 1..Len(t) :
                    /\ t[i] \notin Whitespace
                    /\ (i = 1 \/ t[i - 1] \in Whitespace)})

\* whether s has sub at position i
HasAt(s, sub, i) ==
    i + Len(sub) - 1 <= Len(s) /\ SubSeq(s, i, i + Len(sub) - 1) = sub

\* s.replace(sub, '') from position i on
RECURSIVE RemoveFrom(_, _, _)
RemoveFrom(s, sub, i) ==
    IF i > Len(s) THEN ""
    ELSE IF HasAt(s, sub, i) THEN RemoveFrom(s, sub, i + Len(sub))
    ELSE SubSeq(s, i, i) \o RemoveFrom(s, sub, i + 1)

\* os.path.basename
Basename(path) ==
    LET c == Chars(path)
        slashes == {i \in 1..Len(c) : c[i] = "/"}
    IN IF slashes = {} THEN path
       ELSE SubSeq(path, (CHOOSE i \in slashes : \A j \in slashes : j <= i) + 1,
                   Len(path))

\* os.path.basename(transcript_file).replace('_transcript.txt', '')
Title(transcript_file) ==
    RemoveFrom(Basename(transcript_file), "_transcript.txt", 1)

\* DictAdd if main assigned the count instead of adding it
DictAddOverwrite(d, key, count) ==
    IF \E i \in 1..Len(d) : d[i][1] = key
    THEN [i \in 1..Len(d) |-> IF d[i][1] = key THEN <<key, count>> ELSE d[i]]
    ELSE Append(d, <<key, count>>)

\* all_techniques[technique] += count on a defaultdict(int)
DictAdd(d, key, count) ==
    IF \E i \in 1..Len(d) : d[i][1] = key
    THEN [i \in 1..Len(d) |->
             IF d[i][1] = key THEN <<key, d[i][2] + count>> ELSE d[i]]
    ELSE Append(d, <<key, count>>)

\* the loop `for technique, count in techniques`
RECURSIVE AddAll(_, _)
AddAll(d, techniques) ==
    IF techniques = <<>> THEN d
    ELSE AddAll(DictAdd(d, Head(techniques)[1], Head(techniques)[2]),
                Tail(techniques))

\* sorted(..., reverse=True) is stable: x, a pair <<key, item>>, goes after
\* the entries whose key is not smaller
RECURSIVE InsertDesc(_, _)
InsertDesc(sorted, x) ==
    IF sorted = <<>> THEN <<x>>
    ELSE IF Head(sorted)[1] >= x[1]
         THEN <<Head(sorted)>> \o InsertDesc(Tail(sorted), x)
         ELSE <<x>> \o sorted

RECURSIVE SortInto(_, _)
SortInto(sorted, pairs) ==
    IF pairs = <<>> THEN sorted
    ELSE SortInto(InsertDesc(sorted, Head(pairs)), Tail(pairs))

\* the items of seq by descending keys[i], ties in the order of seq
SortedDesc(seq, keys) ==
    LET pairs == SortInto(<<>>, [i \in 1..Len(seq) |-> <<keys[i], seq[i]>>])
    IN  [i \in 1..Len(seq) |-> pairs[i][2]]

\* sorted(all_techniques.items(), key=lambda x: x[1], reverse=True)
SortTechniques(items) ==
    SortedDesc(items, [i \in 1..Len(items) |-> items[i][2]])

\* tutorial_summaries.sort(key=lambda x: x['word_count'], reverse=True)
SortSummaries(summaries) ==
    SortedDesc(summaries, [i \in 1..Len(summaries) |-> summaries[i].word_count])

KeyStepLimit == 5
StepDisplayLimit == 100

\* the summary dict main builds for one transcript
Summary(transcript_file, text) ==
    [title |-> Title(transcript_file),
     techniques |-> extract_techniques(text),
     key_steps |-> Take(extract_steps(text), KeyStepLimit),
     word_count |-> WordCount(text)]

\* step.strip()[:100], as the report shows a key step
ShownStep(step) == Take(Strip(step), StepDisplayLimit)

\* the section of the report for one summary
Section(entry) ==
    [title |-> entry.title,
     word_count |-> entry.word_count,
     techniques |-> entry.techniques,
     key_steps |-> [i \in 1..Len(entry.key_steps) |->
                       <<i, ShownStep(entry.key_steps[i])>>]]

\* MostCommon without the test for an empty list: sorted_techniques[0][0]
MostCommonUnguarded(sorted_techniques) ==
    IF sorted_techniques # <<>> THEN sorted_techniques[1][1]
    ELSE "IndexError"

\* the name printed as the most common technique
MostCommon(sorted_techniques) ==
    IF sorted_techniques # <<>> THEN sorted_techniques[1][1] ELSE "None"

\* Raises if open() and read() gave an empty text instead of raising
RaisesNever(f) == FALSE

\* whether open(transcript_file, 'r', encoding='utf-8') or f.read() raises
Raises(f) == ~f.readable

\* one iteration of `for transcript_file in transcript_files`; open() or
\* read() raising ends main with the exception
AnalyzeFile ==
    /\ apc = "loop"
    /\ aidx <= Len(files)
    /\ LET f == files[aidx] IN
       /\ analyzing' = Append(analyzing, f.name)
       /\ IF ~Raises(f) THEN
             LET entry == Summary(f.name, f.text) IN
             /\ steps' = extract_steps(f.text)
             /\ all_techniques' = AddAll(all_techniques, entry.techniques)
             /\ tutorial_summaries' = Append(tutorial_summaries, entry)
             /\ aidx' = aidx + 1
             /\ UNCHANGED apc
          ELSE
             /\ apc' = "error"
             /\ UNCHANGED <<aidx, all_techniques, tutorial_summaries, steps>>
    /\ UNCHANGED <<files, report, written, aout>>
    /\ UNCHANGED <<lvars, xvars, svars, ovars>>

\* after the loop: the report is built and written and the totals printed
WriteReport ==
    /\ apc = "loop"
    /\ aidx > Len(files)
    /\ LET sorted_techniques == SortTechniques(all_techniques)
           sorted_summaries == SortSummaries(tutorial_summaries)
       IN
       /\ tutorial_summaries' = sorted_summaries
       /\ report' = [techniques |-> sorted_techniques,
                     summaries |-> [i \in 1..Len(sorted_summaries) |->
                                       Section(sorted_summaries[i])]]
       /\ written' = TRUE
       /\ aout' = <<"complete", Len(sorted_summaries),
                    MostCommon(sorted_techniques)>>
    /\ apc' = "done"
    /\ UNCHANGED <<files, aidx, all_techniques, steps, analyzing>>
    /\ UNCHANGED <<lvars, xvars, svars, ovars>>

-----------------------------------------------------------------------------
(* Properties of the launcher *)

\* C1: run_visualizer returns False for every key that is not in the
\* registry, and then starts no subprocess and creates no output directory;
\* a subprocess is started only for a registered key whose script exists
\* and with an executable resolved.
C1_UnknownKeyFails ==
    /\ (rv.state # "none" /\ rv.key \notin Keys) =>
          /\ rv.state = "returned"
          /\ rv.result = FALSE
          /\ ~rv.started
          /\ ~rv.mkdir
          /\ inflight = 0
          /\ ~outputDir
          /\ pc = "exit"
    /\ (rv.started \/ inflight > 0) =>
          /\ rv.key \in Keys
          /\ rv.script_exists
          /\ rv.exe # None
          /\ rv.cmd[1] = rv.exe

\* an unregistered key was passed and the call is over
C1_Witness ==
    rv.key = "bogus" /\ rv.state = "returned" /\ rv.msg = "unknown_visualizer"

\* C2: once the key is registered, the script exists and an executable is
\* resolved, run_visualizer returns True exactly when the host process ended
\* with exit code 0; a non-zero exit code, a timeout and an exception while
\* launching each give False, and nothing is raised to the caller.
C2_ReturnsExitStatus ==
    /\ pc # "crashed"
    /\ rv.state # "raised"
    /\ (rv.state = "returned" /\ rv.stage \in {"launched", "launch_failed"}) =>
          /\ rv.result = (rv.started /\ rv.outcome = "exit0")
          /\ rv.outcome \in Outcomes
    /\ (rv.state = "returned" /\ pc = "runall") =>
          results[Len(results)] = <<rv.key, rv.result>>

\* a started host process timed out and the call returned False
C2_Witness ==
    /\ rv.state = "returned"
    /\ rv.started
    /\ rv.outcome = "timeout"
    /\ rv.result = FALSE

\* C3: when none of the candidate filesystem locations exists,
\* get_blender_executable yields no executable, run_visualizer returns False
\* without starting a subprocess, and create_render_batch returns without
\* writing the batch script.
C3_MissingExecutableAborts ==
    /\ (cb.called /\ cb.existing = {}) =>
          /\ cb.exe = None
          /\ ~cb.wrote
          /\ "blender_not_found" \in out
    /\ (rv.stage \in {"no_exe", "ready", "launched", "launch_failed"}
          /\ rv.existing = {}) =>
          /\ rv.stage = "no_exe"
          /\ rv.exe = None
          /\ rv.state = "returned"
          /\ rv.result = FALSE
          /\ ~rv.started

\* C4: at most one host subprocess is in flight at any time, and it is in
\* flight only while run_visualizer is blocked on it; the next one is
\* started only when none is in flight.
C4_OneSubprocess ==
    /\ inflight \in {0, 1}
    /\ inflight = 1 => pc = "rv_wait"
    /\ pc = "rv_launch" => inflight = 0

\* run_all_visualizers waits for a subprocess after an earlier one of the
\* same run has exited
C4_Witness ==
    /\ pc = "rv_wait"
    /\ caller = "runall"
    /\ inflight = 1
    /\ Len(results) >= 2
    /\ results[1][2] = TRUE

\* C5: run_all_visualizers calls run_visualizer for every registry key once,
\* in registry order, whatever the earlier outcomes; at the summary the
\* results hold one boolean per registry key and the successful count is the
\* number of True entries.
C5_RunAllOnceEach ==
    /\ Len(attempts) <= Len(VISUALIZERS)
    /\ \A i \in 1..Len(attempts) : attempts[i] = VISUALIZERS[i].key
    /\ Len(results) <= Len(attempts)
    /\ Len(attempts) <= Len(results) + 1
    /\ \A i \in 1..Len(results) :
          /\ results[i][1] = VISUALIZERS[i].key
          /\ results[i][2] \in BOOLEAN
    /\ summary.printed =>
          /\ Len(attempts) = Len(VISUALIZERS)
          /\ Len(results) = Len(VISUALIZERS)
          /\ summary.total = Len(VISUALIZERS)
          /\ summary.successful =
                Cardinality({i \in 1..Len(results) : results[i][2]})
          /\ summary.successful <= summary.total

\* the summary was printed after the first and third visualizer failed and
\* later ones succeeded
C5_Witness ==
    /\ summary.printed
    /\ results[1][2] = FALSE
    /\ results[3][2] = FALSE
    /\ results[4][2] = TRUE
    /\ results[6][2] = TRUE
    /\ summary.successful = 3

\* the host invocations of a script, in order
RunLines(script) == SelectSeq(script, LAMBDA l : l.op = "run")

\* C6: the generated shell script invokes every registered visualizer once,
\* in registry order, each time as <executable> --background --python
\* <script path>; a run of it invokes all of them whatever their exit
\* statuses, a failed one only printing its failure line.
C6_BatchScriptRunsAll ==
    /\ cb.wrote => cb.exe # None /\ batchScript # <<>>
    /\ batchScript # <<>> =>
          LET runs == RunLines(batchScript) IN
          /\ Len(runs) = Len(VISUALIZERS)
          /\ \E exe \in Range(possible_paths) :
                /\ cb.wrote => exe = cb.exe
                /\ \A i \in 1..Len(runs) :
                      runs[i].arg = <<exe, "--background", "--python",
                                      "scripts/" \o VISUALIZERS[i].script>>
          /\ sh.line = Len(batchScript) + 1 =>
                /\ Len(sh.invoked) = Len(VISUALIZERS)
                /\ \A i \in 1..Len(VISUALIZERS) : sh.invoked[i] = runs[i].arg
          /\ (sh.line \in 1..Len(batchScript)
                /\ batchScript[sh.line].op = "fi") =>
                sh.echoed = IF sh.rc = 0 THEN "completed" ELSE "failed"

\* a run of the script ended after every invocation had failed
C6_Witness ==
    /\ batchScript # <<>>
    /\ sh.line = Len(batchScript) + 1
    /\ sh.failures = Len(VISUALIZERS)
    /\ Len(sh.invoked) = Len(VISUALIZERS)

\* C7: main takes exactly one branch, chosen by its first argument: list,
\* all, batch, a registered key (with the second argument as audio path),
\* anything else prints the unknown-command message and runs nothing; with
\* no argument the interactive menu is entered.
C7_MainDispatch ==
    /\ pc = "start" => dispatched = <<>>
    /\ pc # "start" =>
          /\ Len(dispatched) = 1
          /\ IF Len(argv) = 1 THEN
                dispatched[1] = "menu" /\ mode = "menu"
             ELSE
                /\ mode = "cli"
                /\ rounds = 0
                /\ CASE argv[2] = "list" ->
                          /\ dispatched[1] = "list"
                          /\ out = {"list"}
                          /\ rv = NoFrame /\ ~cb.called /\ attempts = <<>>
                          /\ ~outputDir /\ batchScript = <<>>
                     [] argv[2] = "all" ->
                          /\ dispatched[1] = "all"
                          /\ "runall_banner" \in out
                          /\ ~cb.called /\ batchScript = <<>>
                          /\ rv.key \in Range(attempts) \cup {None}
                     [] argv[2] = "batch" ->
                          /\ dispatched[1] = "batch"
                          /\ cb.called
                          /\ rv = NoFrame /\ attempts = <<>>
                          /\ "runall_banner" \notin out
                     [] argv[2] \in Keys ->
                          /\ dispatched[1] = "run"
                          /\ rv.key = argv[2]
                          /\ rv.audio = IF Len(argv) > 2 THEN argv[3]
                                        ELSE IF rv.stage = "script_missing"
                                             THEN None ELSE AUDIO_FILES[1]
                          /\ out = {}
                          /\ ~cb.called /\ attempts = <<>>
                          /\ batchScript = <<>>
                     [] OTHER ->
                          /\ dispatched[1] = "unknown"
                          /\ out = {"unknown_command"}
                          /\ pc = "exit"
                          /\ rv = NoFrame /\ ~cb.called /\ attempts = <<>>
                          /\ inflight = 0 /\ ~outputDir
                          /\ batchScript = <<>>

\* a registered key with an audio path ran that visualizer to its end
C7_Witness ==
    /\ Len(argv) = 3
    /\ argv[2] = "quantum_interference"
    /\ pc = "exit"
    /\ rv.key = "quantum_interference"
    /\ rv.audio = "/tmp/custom.m4a"
    /\ rv.result = TRUE

-----------------------------------------------------------------------------
(* The analyzer as a state machine *)

\* transcript files handed to main at most
MaxFiles == 2

\* pieces a text handed to extract_techniques is made of at most
MaxChunks == 3

\* transcripts found in blender/tutorials
Corpus == {
    "",
    "First, add a Sound input. Then bake sound into an F-curve.",
    "Use drivers and a DRIVER. Next,  bake sound.",
    "geometry nodes",
    "Now add modifiers.\nDrivers drive modifiers, then Geometry  Nodes.",
    "step 1: frequency spectrum. Step 2 - sound\tinput",
    "Step 1:  select the default cube and open the geometry nodes editor and add a sound input and a bake sound helper to it  . First, b. Next, c. Then d. Finally, e. Now f. After that, g. now h. now i. now j. now k. now l." }

\* the path glob returns in place i
TranscriptFile(i) ==
    "blender/tutorials/video" \o ToString(i) \o "_transcript.txt"

\* what glob.glob('blender/tutorials/*_transcript.txt') can return: up to
\* MaxFiles paths, each readable with some text or not readable
Globs ==
    UNION { [1..n -> [text : Corpus, readable : {TRUE}]
                      \cup [text : {""}, readable : {FALSE}]] :
            n \in 0..MaxFiles }

AnalyzerInit ==
    /\ \E g \in Globs :
          files = [i \in 1..Len(g) |->
                      [name |-> TranscriptFile(i), text |-> g[i].text,
                       readable |-> g[i].readable]]
    /\ apc = "loop"
    /\ aidx = 1
    /\ all_techniques = <<>>
    /\ tutorial_summaries = <<>>
    /\ report = [techniques |-> <<>>, summaries |-> <<>>]
    /\ written = FALSE
    /\ aout = <<>>
    /\ steps = <<>>
    /\ analyzing = <<>>
    /\ LauncherIdle
    /\ ExtractIdle
    /\ ScriptIdle
    /\ OthersIdle

AnalyzerNext ==
    \/ AnalyzeFile
    \/ WriteReport

AnalyzerSpec == AnalyzerInit /\ [][AnalyzerNext]_vars

-----------------------------------------------------------------------------
(* extract_techniques applied to bounded texts *)

Chunks == {"sound", " input", "Sound\tInput", "bake ", "drivers", "DRIVER",
           "spectrum", " "}

\* the texts made of n chunks
RECURSIVE TextsOf(_)
TextsOf(n) ==
    IF n = 0 THEN {""}
    ELSE {t \o c : t \in TextsOf(n - 1), c \in Chunks}

Texts == UNION {TextsOf(n) : n \in 0..MaxChunks}

ExtractInit ==
    /\ xtext \in Texts
    /\ xres = <<>>
    /\ xpc = "call"
    /\ LauncherIdle
    /\ AnalyzerIdle
    /\ ScriptIdle
    /\ OthersIdle

ExtractTechniques ==
    /\ xpc = "call"
    /\ xres' = extract_techniques(xtext)
    /\ xpc' = "done"
    /\ UNCHANGED xtext
    /\ UNCHANGED <<lvars, avars, svars, ovars>>

ExtractNext == ExtractTechniques

ExtractSpec == ExtractInit /\ [][ExtractNext]_vars

-----------------------------------------------------------------------------
(* Properties of the analyzer *)

\* class membership of a lower-case character, case-sensitively
CharIs(el, ch) ==
    CASE el.cls = "lit" -> ch = el.c
      [] el.cls = "space" -> ch \in Whitespace
      [] el.cls = "digit" -> ch \in Range(Digits)
      [] el.cls = "notdot" -> ch # "."
      [] el.cls = "commaspace" -> ch = "," \/ ch \in Whitespace
      [] el.cls = "colondash" -> ch \in {":", "-"}

\* some string of the language of elements k.. of e starts at position p of t
RECURSIVE OccursFrom(_, _, _, _)
OccursFrom(e, k, t, p) ==
    IF k > Len(e) THEN TRUE
    ELSE \E n \in (IF e[k].q \in {"1", "+"} THEN 1 ELSE 0) ..
                  (IF e[k].q \in {"1", "?"} THEN 1 ELSE Len(t) - p + 1) :
            /\ p + n - 1 <= Len(t)
            /\ \A j \in p..(p + n - 1) : CharIs(e[k], t[j])
            /\ OccursFrom(e, k + 1, t, p + n)

\* the number of places of the text where the keyword pattern occurs,
\* letter case ignored
Occurrences(re, text) ==
    LET t == [i \in 1..Len(text) |-> Lower(SubSeq(text, i, i))] IN
    Cardinality({p \in 1..Len(t) :
                    \E a \in 1..Len(re) : OccursFrom(re[a], 1, t, p)})

\* the count a list of (technique, count) pairs gives a technique, 0 if none
RECURSIVE CountIn(_, _)
CountIn(techniques, technique) ==
    IF techniques = <<>> THEN 0
    ELSE (IF Head(techniques)[1] = technique THEN Head(techniques)[2] ELSE 0)
         + CountIn(Tail(techniques), technique)

EntriesOf(techniques, technique) ==
    {j \in 1..Len(techniques) : techniques[j][1] = technique}

\* C8: for a text in which a keyword pattern occurs N times, letter case
\* ignored, extract_techniques reports the count N for that keyword, and
\* a keyword with N = 0 has no entry in the result.
C8_CountsOccurrences ==
    xpc = "done" =>
       \A i \in 1..Len(patterns) :
          LET n == Occurrences(patterns[i].re, xtext)
              entries == EntriesOf(xres, patterns[i].technique)
          IN IF n = 0 THEN entries = {}
             ELSE /\ Cardinality(entries) = 1
                  /\ \A j \in entries : xres[j][2] = n

\* a text with three occurrences of one keyword in mixed case and none of
\* any other
C8_Witness ==
    /\ xpc = "done"
    /\ xtext = "driversDRIVERdrivers"
    /\ xres = << <<"drivers", 3>> >>

\* the sum over the sections of a report of a technique's per-file count
RECURSIVE SumOver(_, _)
SumOver(sections, technique) ==
    IF sections = <<>> THEN 0
    ELSE CountIn(Head(sections).techniques, technique)
         + SumOver(Tail(sections), technique)

\* C9: the aggregate count of each technique is the sum of its per-file
\* counts over all analysed files; the aggregate list is in descending
\* order of count and the per-file summaries in descending order of word
\* count.
C9_AggregateAndOrder ==
    apc = "done" =>
       /\ Len(report.summaries) = Len(files)
       /\ \A i \in 1..Len(files) :
             \E k \in 1..Len(report.summaries) :
                /\ report.summaries[k].title = "video" \o ToString(i)
                /\ \A j \in 1..Len(patterns) :
                      CountIn(report.summaries[k].techniques,
                              patterns[j].technique)
                         = Occurrences(patterns[j].re, files[i].text)
       /\ \A j \in 1..Len(report.techniques) :
             \E i \in 1..Len(patterns) :
                report.techniques[j][1] = patterns[i].technique
       /\ \A i \in 1..Len(patterns) :
             LET total == SumOver(report.summaries, patterns[i].technique)
                 entries == EntriesOf(report.techniques, patterns[i].technique)
             IN IF total = 0 THEN entries = {}
                ELSE /\ Cardinality(entries) = 1
                     /\ \A j \in entries : report.techniques[j][2] = total
       /\ \A i, j \in 1..Len(report.techniques) :
             i < j => report.techniques[i][2] >= report.techniques[j][2]
       /\ \A i, j \in 1..Len(report.summaries) :
             i < j => report.summaries[i].word_count
                         >= report.summaries[j].word_count

\* two files were analysed, a technique of both was added up, and the sort
\* put the second file's longer summary first
C9_Witness ==
    /\ apc = "done"
    /\ Len(files) = 2
    /\ <<"drivers", 3>> \in Range(report.techniques)
    /\ Len(report.techniques) >= 3
    /\ report.summaries[1].title = "video2"
    /\ report.summaries[1].word_count > report.summaries[2].word_count
    /\ CountIn(report.summaries[1].techniques, "drivers") = 1
    /\ CountIn(report.summaries[2].techniques, "drivers") = 2

\* C10: with no matching transcript file the analyzer completes and writes
\* a report without techniques and without summaries, and prints None as
\* the most common technique.
C10_EmptyGlob ==
    Len(files) = 0 =>
       /\ apc \in {"loop", "done"}
       /\ apc = "done" =>
             /\ written
             /\ report.techniques = <<>>
             /\ report.summaries = <<>>
             /\ aout = <<"complete", 0, "None">>

\* the run without files is over
C10_Witness ==
    /\ apc = "done"
    /\ Len(files) = 0
    /\ written

\* whether a is the first Len(a) elements (or characters) of b
IsPrefix(a, b) == Len(a) <= Len(b) /\ SubSeq(b, 1, Len(a)) = a

\* C11: extract_steps returns at most 10 raw matches; the summary of a file
\* keeps the first 5 of them at most; the report shows each kept step
\* numbered from 1 and cut to 100 characters.
C11_StepLimits ==
    /\ Len(steps) <= 10
    /\ (apc = "loop" /\ aidx > 1) =>
          LET kept == tutorial_summaries[Len(tutorial_summaries)].key_steps IN
          /\ IsPrefix(kept, steps)
          /\ Len(kept) = Min(5, Len(steps))
    /\ \A k \in 1..Len(tutorial_summaries) :
          Len(tutorial_summaries[k].key_steps) <= 5
    /\ apc = "done" =>
          \A k \in 1..Len(report.summaries) :
             LET kept == tutorial_summaries[k].key_steps
                 shown == report.summaries[k].key_steps
             IN /\ Len(shown) = Len(kept)
                /\ \A j \in 1..Len(shown) :
                      /\ shown[j][1] = j
                      /\ Len(shown[j][2]) <= 100
                      /\ IsPrefix(shown[j][2], Strip(kept[j]))
                      /\ Len(shown[j][2]) = Min(100, Len(Strip(kept[j])))

\* a transcript with 12 matches, of which 10 were returned and 5 kept, the
\* first a step of 110 characters that the report shows cut to 100
C11_Witness ==
    /\ apc = "done"
    /\ Len(files) = 1
    /\ Len(StepsFrom(files[1].text, 1)) = 12
    /\ Len(steps) = 10
    /\ Len(tutorial_summaries[1].key_steps) = 5
    /\ Len(Strip(tutorial_summaries[1].key_steps[1])) = 110
    /\ Len(report.summaries[1].key_steps[1][2]) = 100
    /\ report.summaries[1].key_steps[5] = <<5, "e">>

C13_SkipsUnreadable ==
    (apc # "loop" \/ aidx > Len(files)) =>
       /\ apc \in {"loop", "done"}
       /\ apc = "done" =>
             /\ written
             /\ Len(report.summaries)
                   = Cardinality({i \in 1..Len(files) : files[i].readable})

\* C13 as amended: the analyzer does not skip a transcript file that is
\* missing or unreadable: the run stops at that file, the files after it
\* are neither announced nor analysed, and no report is produced.
C13_StopsAtUnreadable ==
    \A i \in 1..Len(files) :
       ~files[i].readable =>
          /\ aidx <= i
          /\ Len(analyzing) <= i
          /\ Len(tutorial_summaries) < i
          /\ ~written
          /\ apc \in {"loop", "error"}

\* the first of two files could not be read and the second, readable, was
\* never looked at
C13_Witness ==
    /\ apc = "error"
    /\ Len(files) = 2
    /\ ~files[1].readable
    /\ files[2].readable
    /\ aidx = 1
    /\ analyzing = <<files[1].name>>
    /\ tutorial_summaries = <<>>

\* the 18 keyword names
KeywordNames ==
    {"geometry_nodes", "sound_input", "bake_sound", "spectral_analysis",
     "audio_animation", "drivers", "modifiers", "particle_systems",
     "material_nodes", "vertex_groups", "curve_objects", "displacement",
     "scale_animation", "emission_shader", "wave_texture", "noise_texture",
     "mix_shader", "add_shader"}

\* a list of (technique, count) pairs as a transcript record may hold it
WellFormedRecord(techniques) ==
    \A j \in 1..Len(techniques) :
       /\ techniques[j][1] \in KeywordNames
       /\ techniques[j][2] >= 1
       /\ \A i \in 1..Len(techniques) :
             techniques[i][1] = techniques[j][1] => i = j

\* C14: in every transcript record and in the aggregate table every
\* technique key is one of the 18 keyword names; within one record a key
\* appears at most once and its count is at least 1.
C14_KnownKeys ==
    /\ Cardinality(KeywordNames) = 18
    /\ \A k \in 1..Len(tutorial_summaries) :
          WellFormedRecord(tutorial_summaries[k].techniques)
    /\ \A k \in 1..Len(report.summaries) :
          WellFormedRecord(report.summaries[k].techniques)
    /\ \A j \in 1..Len(all_techniques) :
          all_techniques[j][1] \in KeywordNames
    /\ \A j \in 1..Len(report.techniques) :
          report.techniques[j][1] \in KeywordNames

\* two records with techniques, one with three keys and one with a count of
\* 2, and an aggregate table of at least four keys
C14_Witness ==
    /\ apc = "done"
    /\ Len(tutorial_summaries) = 2
    /\ \E k \in 1..2 : Len(tutorial_summaries[k].techniques) >= 3
    /\ \E k \in 1..2 : <<"drivers", 2>> \in Range(tutorial_summaries[k].techniques)
    /\ Len(report.techniques) >= 4

\* C16: the visualizer registry and the list of audio files are read-only:
\* whatever the launcher has done (list, run one, run all, create batch,
\* the menu, main), VISUALIZERS and AUDIO_FILES are what the module's body
\* built, and every registry entry has, under its key, exactly a display
\* name, a description and a script file name.
C16_RegistryReadOnly ==
    /\ globals = GlobalsAtImport
    /\ \A i \in 1..Len(VISUALIZERS) :
          /\ DOMAIN VISUALIZERS[i] = {"key", "name", "description", "script"}
          /\ \A j \in 1..Len(VISUALIZERS) :
                VISUALIZERS[j].key = VISUALIZERS[i].key => j = i

\* in the menu the batch script was written and then all six visualizers
\* were run and summed up
C16_Witness ==
    /\ mode = "menu"
    /\ batchScript # <<>>
    /\ summary.printed
    /\ Len(attempts) = 6

\* where interactive_menu can be while its loop runs
MenuLoopPcs ==
    {"menu", "menu_key", "menu_audio", "rv_launch", "rv_wait", "runall"}

\* C18: the interactive menu keeps prompting until option 5 is chosen.  In
\* every step of the menu: the loop is left only from the prompt and only
\* on the input '5'; any other input at the prompt goes on inside the loop;
\* an unknown visualizer key, a run of option 2 that returned (True or
\* False) and the summary of option 3 all lead back to the prompt.
C18_MenuLoops ==
    [][mode = "menu" =>
         /\ pc \in MenuLoopPcs => pc' \in MenuLoopPcs \cup {"exit"}
         /\ (pc # "exit" /\ pc' = "exit") =>
               pc = "menu" /\ menuChoice' = "5"
         /\ (pc = "menu" /\ menuChoice' # "5") => pc' \in MenuLoopPcs
         /\ (pc = "menu" /\ menuChoice' \notin {"2", "3", "5"}) => pc' = "menu"
         /\ pc = "menu_key" => pc' \in {"menu", "menu_audio"}
         /\ (pc \in {"menu_audio", "rv_wait"} /\ rv'.state = "returned"
                /\ (pc = "rv_wait" => caller = "menu")) => pc' = "menu"
         /\ (summary'.printed /\ ~summary.printed) => pc' = "menu"
      ]_vars

\* option 2 ran a visualizer, the run failed, and the menu is at its prompt
\* again
C18_Witness ==
    /\ mode = "menu"
    /\ pc = "menu"
    /\ menuChoice = "2"
    /\ rv.state = "returned"
    /\ rv.stage = "launched"
    /\ ~rv.result

\* the lead-in words that are one word
SimpleLeadIns == {"first", "next", "then", "finally", "now"}

SepChars == Whitespace \cup {","}

\* whether t has the word w at position q, in any case
WordAt(t, q, w) ==
    /\ q + Len(w) - 1 <= Len(t)
    /\ \A k \in 1..Len(w) : Lower(t[q + k - 1]) = SubSeq(w, k, k)

\* the first position from p on whose character is not in S
SkipOver(t, p, S) ==
    LET stops == {j \in p..Len(t) : t[j] \notin S} \cup {Len(t) + 1}
    IN CHOOSE j \in stops : \A i \in stops : j <= i

\* the position of the next period from s on, or the end of the text
NextPeriod(t, s) ==
    LET stops == {j \in s..Len(t) : t[j] = "."} \cup {Len(t) + 1}
    IN CHOOSE j \in stops : \A i \in stops : j <= i

\* the occurrences of a lead-in in t: the word and the position after it
\* (for step N, after the number)
LeadIns(t) ==
    {[w |-> w, p |-> q + Len(w)] :
        <<q, w>> \in {x \in (1..Len(t)) \X SimpleLeadIns :
                         WordAt(t, x[1], x[2])}}
    \cup
    {[w |-> "after that", p |-> SkipOver(t, q + 5, Whitespace) + 4] :
        q \in {x \in 1..Len(t) :
                  /\ WordAt(t, x, "after")
                  /\ WordAt(t, SkipOver(t, x + 5, Whitespace), "that")}}
    \cup
    {[w |-> "step",
      p |-> SkipOver(t, SkipOver(t, q + 4, Whitespace), Range(Digits))] :
        q \in {x \in 1..Len(t) :
                  /\ WordAt(t, x, "step")
                  /\ LET r == SkipOver(t, x + 4, Whitespace)
                     IN r <= Len(t) /\ t[r] \in Range(Digits)}}

\* where the text after the lead-in o and its separators begins
AfterLeadIn(t, o) ==
    IF o.w = "step"
    THEN SkipOver(t, IF o.p <= Len(t) /\ t[o.p] \in {":", "-"}
                     THEN o.p + 1 ELSE o.p, Whitespace)
    ELSE SkipOver(t, o.p, SepChars)

\* the lead-ins of text that a comma or whitespace and then some text
\* follow, each with the span [s, e) from that text to the next period
FollowedLeadIns(text) ==
    LET t == Chars(text) IN
    {[w |-> o.w, s |-> AfterLeadIn(t, o),
      e |-> NextPeriod(t, AfterLeadIn(t, o))] :
        o \in {x \in LeadIns(t) :
                  LET s == AfterLeadIn(t, x)
                  IN /\ x.w # "step" => s > x.p
                     /\ s <= Len(t)
                     /\ t[s] # "."}}

\* no lead-in lies in the text captured for an earlier one of the same word
NoneNested(text) ==
    \A x, y \in FollowedLeadIns(text) :
       x.w = y.w => ~(x.s < y.s /\ y.s < x.e)

\* the number extract_techniques reported for a technique in the summary of
\* the file analysed last, 0 if it has no entry
LastCount(technique) ==
    LET ts == tutorial_summaries[Len(tutorial_summaries)].techniques
        hits == {k \in 1..Len(ts) : ts[k][1] = technique}
    IN IF hits = {} THEN 0 ELSE ts[CHOOSE k \in hits : TRUE][2]

ExampleText == "First, add a Sound input. Then bake sound into an F-curve."

\* a file was read and analysed, and the loop of main is not left yet (the
\* summaries are in the order of the files)
LastWasRead == apc = "loop" /\ aidx > 1

\* C19 as stated: for every lead-in followed by a comma or whitespace the
\* text up to the next period is among the steps; the example text yields
\* the steps "add a Sound input" and "bake sound into an F-curve" and counts
\* of at least 1 for sound_input, bake_sound and drivers.
C19_StepsAndExampleCounts ==
    LastWasRead =>
       LET text == files[aidx - 1].text IN
       /\ \A x \in FollowedLeadIns(text) :
             SubSeq(text, x.s, x.e - 1) \in Range(steps)
       /\ text = ExampleText =>
             /\ "add a Sound input" \in Range(steps)
             /\ "bake sound into an F-curve" \in Range(steps)
             /\ LastCount("sound_input") >= 1
             /\ LastCount("bake_sound") >= 1
             /\ LastCount("drivers") >= 1

\* C19: every step returned is text that follows a lead-in and its
\* separators and runs up to but excluding the next period (or to the end
\* of the text); when no lead-in lies inside the text captured for an
\* earlier one of the same word, the steps are the first ten of these, and
\* all of them if there are ten at most.  The example text yields exactly
\* the steps "add a Sound input" and "bake sound into an F-curve", counts of
\* 1 for sound_input and for bake_sound, and no count for drivers.
C19_StepsAndExample ==
    LastWasRead =>
       LET text == files[aidx - 1].text
           t == Chars(text)
           found == FollowedLeadIns(text)
       IN
       /\ \A k \in 1..Len(steps) :
             \E s \in 1..Len(t) :
                LET e == s + Len(steps[k]) IN
                /\ steps[k] # ""
                /\ e - 1 <= Len(t)
                /\ SubSeq(text, s, e - 1) = steps[k]
                /\ e = NextPeriod(t, s)
                /\ \E o \in LeadIns(t) :
                      /\ o.p <= s
                      /\ o.w # "step" => o.p < s
                      /\ \A j \in o.p..(s - 1) :
                            t[j] \in SepChars \cup {":", "-"}
       /\ NoneNested(text) =>
             /\ Len(steps) = Min(RawStepLimit, Cardinality(found))
             /\ Cardinality(found) <= RawStepLimit =>
                   \A x \in found :
                      SubSeq(text, x.s, x.e - 1) \in Range(steps)
       /\ text = ExampleText =>
             /\ steps = <<"add a Sound input", "bake sound into an F-curve">>
             /\ LastCount("sound_input") = 1
             /\ LastCount("bake_sound") = 1
             /\ LastCount("drivers") = 0

\* the example text was analysed
C19_Witness ==
    /\ LastWasRead
    /\ files[aidx - 1].text = ExampleText
    /\ Len(steps) = 2
    /\ Len(tutorial_summaries[Len(tutorial_summaries)].techniques) = 2

\* the matches of the step patterns in the order extract_steps extends its
\* list with them, from pattern i on
RECURSIVE StepSpansFrom(_, _)
StepSpansFrom(text, i) ==
    IF i > Len(step_patterns) THEN <<>>
    ELSE FindAll(step_patterns[i], text) \o StepSpansFrom(text, i + 1)

\* C28: the fragments extract_steps returns appear in the order of their
\* position in the text, so that cutting to the first 10 (and then 5) keeps
\* the earliest steps of the transcript.
C28_StepsInTextOrder ==
    LastWasRead =>
       LET text == files[aidx - 1].text
           all == StepSpansFrom(text, 1)
           kept == tutorial_summaries[Len(tutorial_summaries)].key_steps
       IN
       /\ steps = Groups(text, Take(all, RawStepLimit))
       /\ kept = Take(steps, 5)
       /\ \A j, k \in 1..Len(steps) : j < k => all[j].gs < all[k].gs
       /\ \A j \in 1..Len(steps), k \in (Len(steps) + 1)..Len(all) :
             all[j].gs < all[k].gs

\* what get_blender_executable returned for the set `existing` of paths
\* that exist: the first candidate of the list that exists, 'blender' when
\* none of the absolute ones does, and never an empty value
FirstExisting(exe, existing) ==
    /\ exe # None
    /\ exe # ""
    /\ \E i \in 1..Len(possible_paths) :
          /\ exe = possible_paths[i]
          /\ \A j \in 1..(i - 1) : possible_paths[j] \notin existing
          /\ possible_paths[i] \in AbsoluteCandidates =>
                possible_paths[i] \in existing
    /\ existing \cap AbsoluteCandidates = {} <=> exe = "blender"

\* C20: get_blender_executable probes the candidates in list order and
\* returns the first absolute candidate that exists; when none of the three
\* exists it returns 'blender'; so it returns a non-empty path whatever the
\* filesystem holds.  (Both callers: run_visualizer and
\* create_render_batch.)
C20_FirstExistingCandidate ==
    /\ rv.stage \in {"no_exe", "ready", "launched", "launch_failed"} =>
          FirstExisting(rv.exe, rv.existing)
    /\ cb.called => FirstExisting(cb.exe, cb.existing)

\* a run for which the second and the third candidate exist and the second
\* was started
C20_Witness ==
    /\ rv.stage = "launched"
    /\ rv.existing = {"/usr/local/bin/blender", "/usr/bin/blender"}
    /\ rv.exe = "/usr/local/bin/blender"
    /\ rv.cmd[1] = "/usr/local/bin/blender"

\* C21: the command run_visualizer issues depends on the visualizer key and
\* the executable found, and on nothing else: it is the executable,
\* --background, --python and the script of the key; the audio file of the
\* call is not in it, and any other audio_file or output_dir would have
\* given the same command.
C21_CommandIgnoresAudio ==
    rv.stage \in {"ready", "launched", "launch_failed"} =>
       LET script_path == ScriptPath(Visualizer(rv.key)) IN
       /\ rv.cmd = <<rv.exe, "--background", "--python", script_path>>
       /\ rv.audio \notin Range(rv.cmd)
       /\ \A audio_file \in Range(AUDIO_FILES) \cup AudioArgs \cup {None},
             output_dir \in OutputDirArgs :
             ConstructCommand(rv.exe, script_path, audio_file, output_dir)
                = rv.cmd

\* the menu ran a visualizer for which the fifth audio file was chosen
C21_Witness ==
    /\ mode = "menu"
    /\ rv.stage = "launched"
    /\ rv.audio = AUDIO_FILES[5]
    /\ Len(rv.cmd) = 4

\* C27: in the menu's run-single flow an audio choice k with
\* 1 <= k <= len(AUDIO_FILES) selects AUDIO_FILES[k-1]; an empty, a
\* non-numeric or an out-of-range choice selects no audio, and the default
\* AUDIO_FILES[0] is then used; for a key that is not registered there is
\* no audio prompt and no run.
C27_MenuAudioChoice ==
    /\ (mode = "menu" /\ menuChoice = "2" /\ rv.state # "none") =>
          /\ KeyRegistered(rv.key)
          /\ rv.key = menuKey
          /\ audioChoice # None
          /\ IF IsDigit(audioChoice)
                   /\ Int_(audioChoice) \in 1..Len(AUDIO_FILES)
             THEN rv.audio = AUDIO_FILES[Int_(audioChoice)]
             ELSE IF rv.stage \in {"ready", "launched", "launch_failed"}
             THEN rv.audio = AUDIO_FILES[1]
             ELSE rv.audio = None
    /\ (mode = "menu" /\ menuKey # None /\ ~KeyRegistered(menuKey)) =>
          /\ pc = "menu"
          /\ "audio_list" \notin out
          /\ audioChoice = None
          /\ rv = NoFrame

\* the menu ran a visualizer after the out-of-range choice "6" and used the
\* default audio file
C27_Witness ==
    /\ mode = "menu"
    /\ menuChoice = "2"
    /\ audioChoice = "6"
    /\ rv.stage = "launched"
    /\ rv.state = "returned"
    /\ rv.audio = AUDIO_FILES[1]

-----------------------------------------------------------------------------
(* A visualizer script as a state machine *)

ScriptInit ==
    /\ \E script \in ScriptNames, audio_exists \in BOOLEAN,
          n \in 0..MaxStrips :
          sc = ScriptFrame(script, audio_exists, ExistingStrips(n))
    /\ LauncherIdle
    /\ AnalyzerIdle
    /\ ExtractIdle
    /\ OthersIdle

ScriptNext ==
    \/ BuildStep
    \/ AudioStep
    \/ CameraCheck
    \/ RenderStep
    \/ ScriptReturn

ScriptSpec == ScriptInit /\ [][ScriptNext]_vars

-----------------------------------------------------------------------------
(* organic_growth_visualizer.py: create_branching_system *)

\* the largest max_generations explored
MaxGenerations == 4

\* the generations a call can start from
StartGenerations == {0, 1, 2}

\* a call create_branching_system(parent_stem, generation, max_generations)
\* that has not run its first statement
BranchFrame(generation) == [generation |-> generation, i |-> 0, entered |-> FALSE]

BranchInit ==
    /\ \E generation \in StartGenerations, max_generations \in 0..MaxGenerations :
          br = [status |-> "running",
                generation |-> generation,
                max_generations |-> max_generations,
                stack |-> <<BranchFrame(generation)>>,  \* the calls in progress
                created |-> <<>>,   \* the branches made, by generation
                depth |-> 0]        \* the deepest nesting of calls so far
    /\ vt = NoCall
    /\ anim = NoCall
    /\ LauncherIdle
    /\ AnalyzerIdle
    /\ ExtractIdle
    /\ ScriptIdle

\* the call on top of the stack
TopCall == br.stack[Len(br.stack)]

\* br after the call on top returned to its caller
Returned(b) ==
    [b EXCEPT !.stack = SubSeq(@, 1, Len(@) - 1),
              !.status = IF Len(b.stack) = 1 THEN "returned" ELSE @]

\* the first statements of a call: the test of the generation
BranchEnter ==
    /\ br.status = "running"
    /\ ~TopCall.entered
    /\ br' = IF AtMaxGeneration(TopCall.generation, br.max_generations)
             THEN Returned(br)
             ELSE [br EXCEPT !.stack[Len(br.stack)].entered = TRUE]
    /\ UNCHANGED <<lvars, avars, xvars, svars, vt, anim>>

\* one pass of the loop: a branch is made and appended, and the recursive
\* call for its sub-branches begins
BranchCreate ==
    /\ br.status = "running"
    /\ TopCall.entered
    /\ TopCall.i < branch_count(TopCall.generation)
    /\ br' = [br EXCEPT
                !.stack = Append([@ EXCEPT ![Len(@)].i = @ + 1],
                                 BranchFrame(TopCall.generation + 1)),
                !.created = Append(@, TopCall.generation),
                !.depth = IF Len(br.stack) > @ THEN Len(br.stack) ELSE @]
    /\ UNCHANGED <<lvars, avars, xvars, svars, vt, anim>>

\* the loop is over: `return branches`
BranchReturn ==
    /\ br.status = "running"
    /\ TopCall.entered
    /\ TopCall.i = branch_count(TopCall.generation)
    /\ br' = Returned(br)
    /\ UNCHANGED <<lvars, avars, xvars, svars, vt, anim>>

BranchNext ==
    \/ BranchEnter
    \/ BranchCreate
    \/ BranchReturn

\* the interpreter goes on running the call
BranchSpec == BranchInit /\ [][BranchNext]_vars /\ WF_vars(BranchNext)

-----------------------------------------------------------------------------
(* vtt_to_text.py: clean_vtt_text *)

\* the lines of a subtitle file a call is tried with, at most
MaxLines == 2

\* lines of subtitle files: headers, cue numbers, timings, cue texts with
\* tags and entities
VttLines == <<
    "WEBVTT", "NOTE x", "12", "00:01 --> 00:02", "", " hi <b>there</b> ",
    "a &amp; b", "<c>align:x", "<i></i>", "x &lt;b&gt;", "1 &amp;lt; 2",
    "a<>b <", "\tok\r" >>

\* '\n'.join(lines)
RECURSIVE JoinLines(_)
JoinLines(lines) ==
    IF lines = <<>> THEN ""
    ELSE IF Len(lines) = 1 THEN lines[1]
    ELSE lines[1] \o "\n" \o JoinLines(Tail(lines))

\* s.split('\n'), from character i on with `line` read so far
RECURSIVE SplitFrom(_, _, _)
SplitFrom(s, i, line) ==
    IF i > Len(s) THEN <<line>>
    ELSE IF SubSeq(s, i, i) = "\n" THEN <<line>> \o SplitFrom(s, i + 1, "")
    ELSE SplitFrom(s, i + 1, line \o SubSeq(s, i, i))

\* sub in s
Contains(s, sub) == \E i \in 1..Len(s) : HasAt(s, sub, i)

\* the test of the loop if it did not look for '-->'
SkippedKeepsTimings(line) ==
    \/ IsPrefix("WEBVTT", line)
    \/ IsPrefix("NOTE", line)
    \/ IsDigit(line)
    \/ line = ""

\* "Skip VTT headers and timestamps": the test on the stripped line
Skipped(line) ==
    \/ IsPrefix("WEBVTT", line)
    \/ IsPrefix("NOTE", line)
    \/ Contains(line, "-->")
    \/ IsDigit(line)
    \/ line = ""

\* re.sub(r'<[^>]+>', '', s) from character i on: a '<', one character or
\* more that are not '>', and the '>' after them are left out
RECURSIVE RemoveTags(_, _)
RemoveTags(s, i) ==
    IF i > Len(s) THEN ""
    ELSE LET closing == {j \in (i + 1)..Len(s) : SubSeq(s, j, j) = ">"} IN
         IF SubSeq(s, i, i) = "<" /\ closing # {}
            /\ (CHOOSE j \in closing : \A k \in closing : j <= k) > i + 1
         THEN RemoveTags(s, (CHOOSE j \in closing : \A k \in closing : j <= k) + 1)
         ELSE SubSeq(s, i, i) \o RemoveTags(s, i + 1)

\* re.sub(sub, by, s) for a pattern without special characters, from
\* character i on
RECURSIVE Replace(_, _, _, _)
Replace(s, sub, by, i) ==
    IF i > Len(s) THEN ""
    ELSE IF HasAt(s, sub, i) THEN by \o Replace(s, sub, by, i + Len(sub))
    ELSE SubSeq(s, i, i) \o Replace(s, sub, by, i + 1)

\* the three substitutions of &amp;, &lt; and &gt;, one after the other
Unescape(line) ==
    Replace(Replace(Replace(line, "&amp;", "&", 1), "&lt;", "<", 1),
            "&gt;", ">", 1)

\* ' '.join(text_lines)
RECURSIVE JoinSpaces(_)
JoinSpaces(text_lines) ==
    IF text_lines = <<>> THEN ""
    ELSE IF Len(text_lines) = 1 THEN text_lines[1]
    ELSE text_lines[1] \o " " \o JoinSpaces(Tail(text_lines))

\* the sequences of at most n lines
LinesUpTo(n) == UNION {[1..k -> Range(VttLines)] : k \in 0..n}

VttInit ==
    /\ \E lines \in LinesUpTo(MaxLines) :
          vt = [status |-> "running",
                vtt_content |-> JoinLines(lines),
                lines |-> SplitFrom(JoinLines(lines), 1, ""),
                i |-> 1,               \* the line the loop is at
                text_lines |-> <<>>,
                result |-> ""]
    /\ br = NoCall
    /\ anim = NoCall
    /\ LauncherIdle
    /\ AnalyzerIdle
    /\ ExtractIdle
    /\ ScriptIdle

\* one pass of `for line in lines`
VttLine ==
    /\ vt.status = "running"
    /\ vt.i <= Len(vt.lines)
    /\ LET line == Strip(vt.lines[vt.i])
           cleaned == Unescape(RemoveTags(line, 1))
       IN vt' = [vt EXCEPT
                   !.i = @ + 1,
                   !.text_lines =
                       IF Skipped(line) THEN @
                       ELSE IF cleaned # "" /\ ~IsPrefix("align:", cleaned)
                       THEN Append(@, cleaned)
                       ELSE @]
    /\ UNCHANGED <<lvars, avars, xvars, svars, br, anim>>

\* return ' '.join(text_lines)
VttReturn ==
    /\ vt.status = "running"
    /\ vt.i > Len(vt.lines)
    /\ vt' = [vt EXCEPT !.status = "returned",
                        !.result = JoinSpaces(vt.text_lines)]
    /\ UNCHANGED <<lvars, avars, xvars, svars, br, anim>>

VttNext ==
    \/ VttLine
    \/ VttReturn

VttSpec == VttInit /\ [][VttNext]_vars

-----------------------------------------------------------------------------
(* tiktok_crystalline_visualizer.py: animate_tiktok_crystals *)

\* the crystals of the list the animation is followed for, at most
MaxCrystals == 3

\* 0.3 * math.sin(frame * 0.08 + i) in thousandths, rounded, for the
\* crystals i = 0..3 (rows) and the frames 1, 6, ..., 356 (columns)
FloatMotionTable == <<
    <<
       24, 139, 231, 287, 298, 262, 184, 78, -41, -154, -242, -292,
       -296, -253, -170, -61, 59, 169, 252, 295, 292, 243, 155, 43,
       -76, -183, -261, -298, -288, -232, -140, -26, 93, 196, 269, 300,
       283, 221, 125, 8, -109, -209, -276, -300, -276, -209, -108, 9,
       125, 221, 283, 299, 269, 196, 92, -27, -141, -233, -288, -298,
       -261, -182, -75, 44, 156, 244, 293, 295, 252, 168, 58, -61 >>,
    <<
       265, 299, 286, 228, 134, 18, -100, -202, -272, -300, -280, -216,
       -118, -1, 116, 215, 279, 300, 273, 203, 101, -17, -132, -226,
       -285, -299, -265, -190, -85, 34, 147, 238, 290, 297, 257, 176,
       68, -51, -162, -248, -294, -294, -247, -162, -51, 69, 177, 257,
       297, 290, 237, 147, 33, -85, -191, -266, -299, -285, -226, -131,
       -16, 102, 204, 273, 300, 279, 214, 115, -2, -118, -216, -280 >>,
    <<
       262, 184, 78, -41, -154, -242, -292, -296, -253, -170, -61, 59,
       169, 252, 295, 292, 243, 155, 43, -76, -183, -261, -298, -288,
       -232, -140, -26, 93, 196, 269, 300, 283, 221, 125, 8, -109,
       -209, -276, -300, -276, -209, -108, 9, 125, 221, 283, 299, 269,
       196, 92, -27, -141, -233, -288, -298, -261, -182, -75, 44, 156,
       244, 293, 295, 252, 168, 58, -61, -171, -253, -296, -292, -242 >>,
    <<
       18, -100, -202, -272, -300, -280, -216, -118, -1, 116, 215, 279,
       300, 273, 203, 101, -17, -132, -226, -285, -299, -265, -190, -85,
       34, 147, 238, 290, 297, 257, 176, 68, -51, -162, -248, -294,
       -294, -247, -162, -51, 69, 177, 257, 297, 290, 237, 147, 33,
       -85, -191, -266, -299, -285, -226, -131, -16, 102, 204, 273, 300,
       279, 214, 115, -2, -118, -216, -280, -300, -272, -201, -99, 19 >> >>

\* float_motion of crystal i (from 0) at a frame of the loop, in thousandths
FloatMotion(frame, i) == FloatMotionTable[i + 1][(frame - 1) \div 5 + 1]

\* the height create_tiktok_crystals gives crystal i (from 0), in
\* thousandths: level * 0.8 - 1, with 8, 6 and 4 crystals on levels 0, 1, 2
CrystalHeight(i) ==
    IF i < 8 THEN 0 - 1000 ELSE IF i < 8 + 6 THEN 800 - 1000 ELSE 1600 - 1000

AnimInit ==
    /\ \E n \in 1..MaxCrystals :
          anim = [status |-> "running",
                  location_z |-> [i \in 0..(n - 1) |-> CrystalHeight(i)],
                  frame |-> 1,    \* the frame of the outer loop
                  i |-> 0,        \* the crystal of the inner loop
                  keys |-> {}]    \* the location keyframes inserted
    /\ br = NoCall
    /\ vt = NoCall
    /\ LauncherIdle
    /\ AnalyzerIdle
    /\ ExtractIdle
    /\ ScriptIdle

\* one pass of the inner loop: base_z is read from the crystal, the offset
\* of the frame is added, the sum is assigned to the crystal and keyed
AnimKey ==
    /\ anim.status = "running"
    /\ anim.frame \in PyRange(1, 361, 5)
    /\ LET i == anim.i
           base_z == anim.location_z[i]
           float_motion == FloatMotion(anim.frame, i)
           last == i + 1 \notin DOMAIN anim.location_z
       IN anim' = [anim EXCEPT
                     !.location_z[i] = base_z + float_motion,
                     !.keys = @ \cup {[crystal |-> i, frame |-> anim.frame,
                                       z |-> base_z + float_motion]},
                     !.i = IF last THEN 0 ELSE i + 1,
                     !.frame = IF last THEN @ + 5 ELSE @]
    /\ UNCHANGED <<lvars, avars, xvars, svars, br, vt>>

\* the outer loop is over
AnimReturn ==
    /\ anim.status = "running"
    /\ anim.frame \notin PyRange(1, 361, 5)
    /\ anim' = [anim EXCEPT !.status = "returned"]
    /\ UNCHANGED <<lvars, avars, xvars, svars, br, vt>>

AnimNext ==
    \/ AnimKey
    \/ AnimReturn

AnimSpec == AnimInit /\ [][AnimNext]_vars

-----------------------------------------------------------------------------
(* Properties of the visualizer scripts *)

\* the steps of the calls made so far
KindsDone == {sc.trace[j].kind : j \in 1..Len(sc.trace)}

\* the steps of the whole main of the running script
KindsOfMain ==
    {ScriptMains[sc.script][j].kind : j \in 1..Len(ScriptMains[sc.script])}

\* C15: in every visualizer script that attaches an audio strip, when the
\* audio file does not exist the audio step is skipped with a logged
\* message, no strip is added and no exception leaves the step, and the
\* script goes on to the render setup and the render.
C15_MissingAudioSkipped ==
    (sc.script # None /\ ~sc.audio_exists /\ "audio" \in KindsDone) =>
       /\ sc.strips = 0
       /\ \E j \in 1..Len(sc.log) : sc.log[j] = "audio_not_found"
       /\ ~(sc.status = "raised" /\ sc.raised_in = "audio")
       /\ sc.status = "returned" =>
             /\ "render_params" \in KindsDone
             /\ "render" \in KindsOfMain => "render" \in KindsDone

\* the place of a step in the order: clear, geometry, materials, particles
\* and physics, camera and lights, audio strip, render parameters, render;
\* 0 for a call that is none of these
StepRank(kind) ==
    CASE kind = "clear" -> 1
      [] kind = "geometry" -> 2
      [] kind = "materials" -> 3
      [] kind = "particles" -> 4
      [] kind \in {"camera", "lights"} -> 5
      [] kind = "audio" -> 6
      [] kind = "render_params" -> 7
      [] kind = "render" -> 8
      [] OTHER -> 0

\* the steps that build the scene
SceneKinds == {"geometry", "materials", "particles", "camera", "lights"}

\* C17 as stated: every main makes its steps in the one order clear,
\* geometry, materials, particles, camera and lights, audio strip, render
\* parameters, render; so the render parameters are never set before the
\* geometry is built.
C17_SameStepOrder ==
    sc.script # None =>
       \A i, j \in 1..Len(sc.trace) :
          (i < j /\ StepRank(sc.trace[i].kind) > 0
                 /\ StepRank(sc.trace[j].kind) > 0) =>
             StepRank(sc.trace[i].kind) <= StepRank(sc.trace[j].kind)

\* C17: every main clears the scene first, attaches the audio strip only
\* after the geometry, the materials, the particles, the camera and the
\* lights are made, and invokes the render, when it has one, as its last
\* call; the order of the other steps is not the same in every script.
C17_CommonStepOrder ==
    (sc.script # None /\ sc.trace # <<>>) =>
       /\ sc.trace[1].kind = "clear"
       /\ \A i, j \in 1..Len(sc.trace) :
             (i < j /\ sc.trace[i].kind = "audio") =>
                sc.trace[j].kind \notin SceneKinds
       /\ \A i \in 1..Len(sc.trace) :
             sc.trace[i].kind = "render" => i = Len(sc.trace)

\* tiktok_quantum_visualizer.py has run to its end: it set the render
\* parameters right after clearing the scene, attached the audio strip and
\* rendered
C17_Witness ==
    /\ sc.script = "tiktok_quantum_visualizer"
    /\ sc.status = "returned"
    /\ sc.trace[2].kind = "render_params"
    /\ {"geometry", "audio", "render"} \subseteq KindsDone

\* C22: in every script that triggers a render, a failure of the render
\* call is caught and printed and the script ends normally: once the render
\* call was made, the script printed that the render completed or that it
\* failed, and no exception of the render left the script.
C22_RenderFailureCaught ==
    (sc.script # None /\ "render" \in KindsDone) =>
       /\ ~(sc.status = "raised" /\ sc.raised_in = "render")
       /\ \E j \in 1..Len(sc.log) :
             sc.log[j] \in {"render_complete", "render_failed"}

\* C23: after an audio setup step that completed with its sound strip
\* added, the sequence editor holds exactly one strip, the new sound strip
\* on channel 1 starting at frame 1, however many strips it held before.
C23_OnlyNewStrip ==
    (sc.script # None /\ "audio" \in KindsDone /\ sc.strips = 1
        /\ sc.status # "crashed") =>
       sc.sequences = <<NewSound(sc.script)>>

\* the scripts whose main verifies the camera before the render
VerifiesCamera ==
    {"tiktok_crystalline_fixed", "tiktok_fluid_visualizer"}

\* C24: in tiktok_crystalline_fixed and tiktok_fluid_visualizer the render
\* is invoked only when the scene has an active camera; when main finds no
\* camera it prints a message and returns, and the render is not invoked.
C24_RenderNeedsCamera ==
    sc.script \in VerifiesCamera =>
       /\ "render" \in KindsDone => sc.camera
       /\ ("check" \in KindsDone /\ ~sc.camera) =>
             /\ sc.log[Len(sc.log)] = "no_camera"
             /\ sc.status = "returned"
             /\ "render" \notin KindsDone

\* tiktok_fluid_visualizer found no camera and returned before the render
C24_Witness ==
    /\ sc.script = "tiktok_fluid_visualizer"
    /\ "check" \in KindsDone
    /\ ~sc.camera
    /\ sc.status = "returned"
    /\ sc.i = Len(main_tiktok_fluid_visualizer)

\* the number of branches of generation g made so far
CreatedIn(g) == Cardinality({k \in 1..Len(br.created) : br.created[k] = g})

\* what holds of a call of create_branching_system at every moment
BranchingSafe ==
    br.status \in {"running", "returned"} =>
       /\ br.depth <= br.max_generations
       /\ Len(br.stack) <= br.max_generations + 1
       /\ \A k \in 1..Len(br.created) : br.created[k] < br.max_generations
       /\ (br.status = "returned" /\ br.generation = 0
              /\ br.max_generations = 4) =>
             /\ Len(br.created) = 632
             /\ CreatedIn(0) = 8
             /\ CreatedIn(1) = 8 * 6
             /\ CreatedIn(2) = 8 * 6 * 4
             /\ CreatedIn(3) = 8 * 6 * 4 * 2

\* C26: create_branching_system terminates for every max_generations >= 0:
\* the nesting of calls never exceeds max_generations, no branch is made
\* with a generation of max_generations or more, every call returns, and the
\* call with the defaults returns 8 + 8*6 + 8*6*4 + 8*6*4*2 = 632 branches.
C26_BranchingTerminates ==
    /\ []BranchingSafe
    /\ <>(br.status = "returned")

\* the call with the defaults has returned its 632 branches, after calls
\* nested four deep
C26_Witness ==
    /\ br.status = "returned"
    /\ br.generation = 0
    /\ br.max_generations = 4
    /\ br.depth = 4
    /\ Len(br.created) = 632

\* C25: every keyframe a script inserts lies in the frame range the same
\* script configures, 1 <= frame <= frame_end, the staggered branch, leaf
\* and flower keyframes of the organic growth script included.
C25_KeyframesInRange ==
    (sc.script # None /\ sc.frame_range # <<>>) =>
       \A f \in sc.keyframes :
          /\ 1 <= f
          /\ sc.frame_range[1] <= f
          /\ f <= sc.frame_range[2]

\* the organic growth script has returned with its range set and its last
\* branch, leaf and flower keyframes inserted
C25_Witness ==
    /\ sc.script = "organic_growth_visualizer"
    /\ sc.status = "returned"
    /\ sc.frame_range = <<1, 300>>
    /\ {1, 78, 198, 294, 296} \subseteq sc.keyframes
    /\ 300 \notin sc.keyframes

\* whether a line of the input contributes nothing: trimmed it is empty,
\* all digits, starts with WEBVTT or NOTE or contains '-->', or without its
\* tags it is empty or starts with 'align:'
ContributesNothing(l) ==
    LET trimmed == Strip(l) IN
    \/ trimmed = ""
    \/ IsDigit(trimmed)
    \/ IsPrefix("WEBVTT", trimmed)
    \/ IsPrefix("NOTE", trimmed)
    \/ \E k \in 1..Len(trimmed) : HasAt(trimmed, "-->", k)
    \/ RemoveTags(trimmed, 1) = ""
    \/ IsPrefix("align:", RemoveTags(trimmed, 1))

\* the lines of the input that contribute, in their order
Retained(vtt_content) ==
    SelectSeq(SplitFrom(vtt_content, 1, ""),
              LAMBDA l : ~ContributesNothing(l))

\* C29 as stated: the output is the retained lines in their order, joined
\* by single spaces, each with its markup tags removed.
C29_RetainedTagsRemoved ==
    vt.status = "returned" =>
       LET kept == Retained(vt.vtt_content) IN
       vt.result = JoinSpaces([k \in 1..Len(kept) |->
                                  RemoveTags(Strip(kept[k]), 1)])

\* C29: the output is the retained lines in their order, joined by single
\* spaces; a line contributes nothing if trimmed it is empty, all digits,
\* starts with WEBVTT or NOTE or contains '-->', or if without its tags it
\* is empty or starts with 'align:'; every other line contributes its
\* trimmed text with the tags removed and then &amp;, &lt; and &gt;
\* replaced, in this order, by &, < and >.
C29_RetainedCleaned ==
    vt.status = "returned" =>
       LET kept == Retained(vt.vtt_content) IN
       vt.result = JoinSpaces([k \in 1..Len(kept) |->
                                  Unescape(RemoveTags(Strip(kept[k]), 1))])

\* a cue text with tags after a timing line: the timing contributed
\* nothing and the text lost its tags
C29_Witness ==
    /\ vt.status = "returned"
    /\ vt.lines = <<"00:01 --> 00:02", " hi <b>there</b> ">>
    /\ vt.result = "hi there"

\* C30: in animate_tiktok_crystals the height keyed for a crystal at a
\* frame is the crystal's initial height plus the float offset of that
\* frame alone, so that it never differs from the initial height by more
\* than the largest single offset, 0.3.
C30_HeightIsInitialPlusOffset ==
    anim.status \in {"running", "returned"} =>
       \A key \in anim.keys :
          /\ key.z = CrystalHeight(key.crystal)
                        + FloatMotion(key.frame, key.crystal)
          /\ key.z - CrystalHeight(key.crystal) <= 300
          /\ CrystalHeight(key.crystal) - key.z <= 300

=============================================================================
